---- MODULE Spec2Model ----
(***************************************************************************)
(* A model of the conspiracy-graph pipeline:                               *)
(*   - the checkpointed line-processing stages                             *)
(*       scripts/extract_entities/extract_entities.py  (stage "triplet")   *)
(*       scripts/filter_entities/filter_entities.py    (stage "link")      *)
(*   - update_progress_config, the progress-document update                *)
(*   - read_and_decode / read_lines_zst, the streaming line reader         *)
(***************************************************************************)
EXTENDS Integers, Sequences, FiniteSets, TLC

VARIABLES
    \* ---- checkpointed stages: persistent state (files) ----
    stage,            \* which script runs: "link" or "triplet"
    lines,            \* input file of each source: a sequence of line kinds
    progress,         \* the progress JSON document on disk
    out,              \* output file of each source: the records written, each
                      \* named by the input line number that produced it
    \* ---- checkpointed stages: one process (lost when it stops) ----
    pc,               \* position of the running process
    config,           \* the document as loaded by __main__ at start
    src_idx,          \* position of __main__'s loop over the sources
    current_line,     \* current_line / start_line_num
    pos,              \* lines of the input file read so far
    line_number,      \* line_number / line_num
    buffer,           \* triplets / triplet_batches
    \* ---- history (not program state) ----
    runs,             \* processes started so far
    kb_denied,        \* a response to the last transform's queries was 403
    exit_cause,       \* why the last process stopped
    touched,          \* per source: what this process did to it
    run_transformed,  \* per source: lines transformed by this process
    transformed_ever, \* per source: lines transformed by any process
    checkpointed,     \* per source: the records that were written by a flush
                      \* whose checkpoint write followed
    committed,        \* per source: lines whose records were flushed and
                      \* whose flush was followed by its checkpoint write
    reprocessed,      \* per source: lines transformed again after commit
    window_crash,     \* some process was stopped between flush and checkpoint
    flushed,          \* the records of a write whose checkpoint write is
                      \* still to come
    window_records,   \* per source, the records of the last write that a
                      \* stop cut off from its checkpoint write
    lost,             \* the records in the buffer of the last process when
                      \* it stopped
    \* ---- update_progress_config on its own ----
    u_doc, u_key_path, u_value, u_impl, u_outcome, u_before,
    \* ---- read_lines_zst ----
    r_stream, r_chunk_size, r_pos, r_buffer, r_yielded, r_pc, r_bytes_read,
    \* ---- read_lines_zst, one call of read_and_decode at a time ----
    d_stream, d_chunk_size,
    d_pos,            \* the reader's offset in the decompressed stream
    d_previous_chunk, \* the bytes a failed call hands to the next call
    d_bytes_read,     \* bytes_read after `bytes_read += chunk_size`
    d_buffer, d_yielded,
    d_pc,             \* "loop": the loop calls next; "retry": read_and_decode
                      \* calls itself next; "done", "error", "idle"
    \* ---- extract_triplets ----
    t_text,           \* the decoded prediction: its whitespace-separated items
    t_runs,           \* history: the runs of words a well-formed text was
                      \* built from (empty for any other text)
    t_triplets,       \* the list returned
    t_pc,             \* "called", "returned" ("idle": not running)
    \* ---- search_wikidata and filter_wikidata_results ----
    w_impl,           \* "filter_entities" or "query_wikidata"
    w_status_code,    \* response.status_code
    w_received,       \* the "search" list of the response
    w_threshold,
    w_results,        \* what search_wikidata returned
    w_return,         \* what filter_wikidata_results returned
    w_pc,             \* "search", "filter", "returned", "searched", "exited"
    \* ---- build_graph_data.py: __main__ ----
    g_triples,        \* raw_kg_triples
    g_raw,            \* raw_kg_data
    g_large,          \* large_kg_data (the call's result)
    g_small,          \* small_kg_data (the call's result)
    g_pc,             \* "aggregate", "large", "small", "export", "raised"
    \* ---- normalize_edges on its own ----
    n_raw,            \* kg_data_raw_edge_counts
    n_threshold,      \* renormalization_threshold
    n_result,         \* the call's result
    n_pc,             \* "called", "returned", "raised"
    \* ---- extract_triplets token by token ----
    x_text,           \* the text passed in, as its pieces
    x_rest,           \* the tokens the loop has still to read
    x_st,             \* triplets, relation, subject, object_, current
    x_token,          \* the token read last
    x_return,         \* the list returned
    x_pc,             \* "loop", "returned", "idle"
    \* ---- the linking of one line by process_and_link_entities ----
    k_record,         \* the input line: head, type, tail
    k_head_status,    \* status code of the response to the head's query
    k_head_received,  \* the records of that response
    k_tail_status,    \* status code of the response to the tail's query
    k_tail_received,  \* the records of that response
    k_linked_head,    \* linked_head
    k_linked_tail,    \* linked_tail
    k_triplets,       \* triplets, the list the flush writes
    k_pc,             \* "line", "linked", "skipped", "exited", "idle"
    \* ---- extract_data.py and prep_data.py on one file ----
    e_stage,          \* "extract" (process_file) or "clean" (clean_comments)
    e_lines,          \* the input file: per line, whether json.loads accepts
                      \* it and whether it has the key created_utc
    e_pos,            \* lines the loop of this run has read
    e_batch,          \* valid_lines (prep_data)
    e_out,            \* the output file
    e_runs,           \* runs started
    e_pc,             \* "stopped", "loop", "done", "idle"
    e_run_lines,      \* the lines this run has put through its loop body
    e_before,         \* the most lines an earlier run had read
    e_bad             \* the lines counted in bad_lines (extract_data)

pvars == <<stage, lines, progress, out, pc, config, src_idx, current_line,
           pos, line_number, buffer, runs, kb_denied, exit_cause, touched,
           run_transformed, transformed_ever, committed, checkpointed, reprocessed,
           window_crash, flushed, window_records, lost>>
uvars == <<u_doc, u_key_path, u_value, u_impl, u_outcome, u_before>>
dvars == <<d_stream, d_chunk_size, d_pos, d_previous_chunk, d_bytes_read,
           d_buffer, d_yielded, d_pc>>
rvars == <<r_stream, r_chunk_size, r_pos, r_buffer, r_yielded, r_pc,
           r_bytes_read, dvars>>
tvars == <<t_text, t_runs, t_triplets, t_pc>>
\* the parts added to the stage, update and reader machines
wvars == <<w_impl, w_status_code, w_received, w_threshold, w_results,
           w_return, w_pc>>
gvars == <<g_triples, g_raw, g_large, g_small, g_pc>>
nvars == <<n_raw, n_threshold, n_result, n_pc>>
ovars == <<tvars, wvars, gvars, nvars>>
xvars == <<x_text, x_rest, x_st, x_token, x_return, x_pc>>
kvars == <<k_record, k_head_status, k_head_received, k_tail_status,
           k_tail_received, k_linked_head, k_linked_tail, k_triplets, k_pc>>
evars == <<e_stage, e_lines, e_pos, e_batch, e_out, e_runs, e_pc,
           e_run_lines, e_before, e_bad>>
qvars == <<xvars, kvars, evars>>
vars == <<pvars, uvars, rvars, ovars, qvars>>

(***************************************************************************)
(* Bounds of the model.                                                    *)
(***************************************************************************)
\* lines of all input files together
MaxLines == 4
\* processes (runs, interruptions and re-runs) of one stage
MaxRuns == 2
\* Lines between two flushes. The scripts flush every 100 lines
\* (filter_entities.py:275) and every 25 lines (extract_entities.py:286);
\* the model keeps the rule "line_number % interval == 0" and scales the
\* interval down so that files of MaxLines lines cross it.
LinkFlushInterval == 2
TripletFlushInterval == 2

\* longest key path handed to update_progress_config
MaxKeyPath == 3
\* longest compressed stream, in characters
MaxChars == 6
\* largest chunk size the reader is run with
MaxChunkSize == 2
\* characters of a text whose stream may be cut short
MaxRawChars == 4
\* words of one head, tail or relation of a well-formed prediction
MaxRun == 2
\* words of a well-formed prediction, its markers not counted
MaxWords == 9
\* labels and aliases of all candidates of one response together
MaxScores == 4
\* linked triples ingested
MaxTriples == 4
\* edges of a raw edge list handed to normalize_edges
MaxEdges == 3

(***************************************************************************)
(* JSON values of the progress document.                                   *)
(***************************************************************************)
JInt(n) == [t |-> "int", v |-> n]
JBool(b) == [t |-> "bool", v |-> b]
JStr(s) == [t |-> "str", v |-> s]
JDict(f) == [t |-> "dict", v |-> f]

Sources == {"s1", "s2"}
\* the order in which __main__ enumerates the document's keys
SourceOrder == <<"s1", "s2">>

PathOf(s) == IF s = "s1" THEN "raw_entities/s1_raw_entities.jsonl"
                         ELSE "raw_entities/s2_raw_entities.jsonl"

\* Python's `key in "some string"` is a substring test.  Of the keys the
\* model uses only the source's own name occurs in its path.
StrContains(str, key) == \E s \in Sources : str = PathOf(s) /\ key = s

\* the progress document before the first run: every source at line 0, not done
InitialDoc ==
    JDict([s \in Sources |->
        JDict([path |-> JStr(PathOf(s)), line |-> JInt(0),
               status |-> JBool(FALSE)])])

Entry(doc, s) == doc.v[s].v
LineOf(doc, s) == Entry(doc, s).line.v
StatusOf(doc, s) == Entry(doc, s).status.v

(***************************************************************************)
(* update_progress_config(key_path, value).                                *)
(* WalkUpdate follows the traversal of the loaded document: `key in level` *)
(* on a dict is a membership test, on a str a substring test, and on an    *)
(* int or bool raises TypeError; indexing or assigning into a str raises   *)
(* TypeError; key_path[-1] of an empty path raises IndexError.             *)
(* The result is the outcome and the document as it would be dumped.       *)
(***************************************************************************)
RECURSIVE WalkUpdate(_, _, _)
WalkUpdate(level, key_path, value) ==
    IF key_path = <<>> THEN [outcome |-> "IndexError", doc |-> level]
    ELSE LET key == Head(key_path)
             last == Len(key_path) = 1
         IN CASE level.t = "dict" ->
                   IF key \notin DOMAIN level.v
                   THEN [outcome |-> "not_found", doc |-> level]
                   ELSE IF last
                   THEN [outcome |-> "updated",
                         doc |-> JDict([level.v EXCEPT ![key] = value])]
                   ELSE LET r == WalkUpdate(level.v[key], Tail(key_path), value)
                        IN [outcome |-> r.outcome,
                            doc |-> IF r.outcome = "updated"
                                    THEN JDict([level.v EXCEPT ![key] = r.doc])
                                    ELSE level]
              [] level.t = "str" ->
                   IF StrContains(level.v, key)
                   THEN [outcome |-> "TypeError", doc |-> level]
                   ELSE [outcome |-> "not_found", doc |-> level]
              [] OTHER -> [outcome |-> "TypeError", doc |-> level]

\* filter_entities.py: nothing catches the exception, the file is not rewritten
UpdateProgressConfigLink(doc, key_path, value) ==
    LET r == WalkUpdate(doc, key_path, value)
    IN [doc |-> IF r.outcome = "updated" THEN r.doc ELSE doc,
        diagnostic |-> r.outcome = "not_found",
        raised |-> r.outcome \in {"TypeError", "IndexError"}]

\* extract_entities.py: `except Exception` prints the error and returns
UpdateProgressConfigTriplet(doc, key_path, value) ==
    LET r == WalkUpdate(doc, key_path, value)
    IN [doc |-> IF r.outcome = "updated" THEN r.doc ELSE doc,
        diagnostic |-> r.outcome # "updated",
        raised |-> FALSE]

UpdateProgressConfig(impl, doc, key_path, value) ==
    IF impl = "link" THEN UpdateProgressConfigLink(doc, key_path, value)
                     ELSE UpdateProgressConfigTriplet(doc, key_path, value)

(***************************************************************************)
(* The checkpointed stages.                                                *)
(***************************************************************************)
Stages == {"link", "triplet"}
\* a line either parses (json.loads and the field lookups succeed) or not
LineKinds == {"good", "bad"}
\* status codes of the knowledge base: success, forbidden, another error
KBStatuses == {200, 403, 500}
Effects == {"open", "truncate", "read", "transform", "query", "write",
            "checkpoint", "status"}

RECURSIVE SeqsUpTo(_, _)
SeqsUpTo(S, n) ==
    IF n = 0 THEN {<<>>}
    ELSE LET shorter == SeqsUpTo(S, n - 1)
         IN shorter \cup {Append(q, x) : q \in shorter, x \in S}

FlushInterval(st) ==
    IF st = "link" THEN LinkFlushInterval ELSE TripletFlushInterval

\* FlushDue one line late
FlushDueLate(st, n) == n % FlushInterval(st) = 1

\* `if line_number % 100 == 0` / `if line_num % 25 == 0`
FlushDue(st, n) == n % FlushInterval(st) = 0

\* SkipLine with the bound off by one: the line before the cursor is not skipped
SkipLineOneLess(n, start) == n + 1 < start
\* SkipLine that skips nothing
SkipLineNever(n, start) == FALSE
\* SkipLine with the comparison turned round
SkipLineReversed(n, start) == n > start

\* `if line_number < current_line: continue`
SkipLine(n, start) == n < start

\* IsDone that never finds a source done
IsDoneNever(doc, s) == FALSE

\* `if config[data_source]["status"] is True: continue`
IsDone(doc, s) == StatusOf(doc, s) = TRUE

\* search_wikidata without the 403 branch: every failure is an empty list
SearchWikidataNoExit(status_code) ==
    IF status_code = 200 THEN "results" ELSE "empty"

\* search_wikidata: what a response with this status code leads to
SearchWikidata(status_code) ==
    IF status_code = 200 THEN "results"
    ELSE IF status_code = 403 THEN "exit"
    ELSE "empty"

\* a line number of 0 before the loop in both stages
LineNumberBeforeLoopZero(st) == 0

\* line_number / line_num before the first line is read: `line_number = 1`
\* (kept by enumerate() when the file has no line) and `line_num = 0`
LineNumberBeforeLoop(st) == IF st = "link" THEN 1 ELSE 0

CurSource == SourceOrder[src_idx]

\* an output file that every stage opens with mode "w"
OpenOutputTruncated(st, output) == <<>>

\* the output file as the stage opens it: filter_entities with mode "a",
\* extract_entities with mode "w"
OpenOutput(st, output) == IF st = "link" THEN output ELSE <<>>

\* the stages leave the other parts of the model alone
StageFrame == UNCHANGED <<u_doc, u_key_path, u_value, u_impl, u_outcome, u_before,
                          r_stream, r_chunk_size, r_pos, r_buffer, r_yielded,
                          r_pc, r_bytes_read, dvars, ovars, qvars>>

PInit ==
    /\ stage \in Stages
    /\ lines \in [Sources -> SeqsUpTo(LineKinds, MaxLines)]
    /\ Len(lines["s1"]) + Len(lines["s2"]) <= MaxLines
    /\ progress = InitialDoc
    /\ out = [s \in Sources |-> <<>>]
    /\ pc = "stopped"
    /\ config = InitialDoc
    /\ src_idx = 0
    /\ current_line = 0
    /\ pos = 0
    /\ line_number = 0
    /\ buffer = <<>>
    /\ runs = 0
    /\ kb_denied = FALSE
    /\ exit_cause = "none"
    /\ touched = [s \in Sources |-> {}]
    /\ run_transformed = [s \in Sources |-> {}]
    /\ transformed_ever = [s \in Sources |-> {}]
    /\ committed = [s \in Sources |-> {}]
    /\ checkpointed = [s \in Sources |-> {}]
    /\ reprocessed = [s \in Sources |-> {}]
    /\ window_crash = FALSE
    /\ flushed = <<>>
    /\ window_records = [s \in Sources |-> <<>>]
    /\ lost = <<>>

\* what is left of a process once it has stopped: nothing in memory
Stopped(cause) ==
    /\ pc' = "stopped"
    /\ exit_cause' = cause
    /\ src_idx' = 0
    /\ current_line' = 0
    /\ pos' = 0
    /\ line_number' = 0
    /\ buffer' = <<>>
    /\ lost' = buffer
    /\ flushed' = <<>>

Touch(s, effects) == touched' = [touched EXCEPT ![s] = @ \cup effects]

\* __main__ up to its loop: the script is started and loads the document
StartRun ==
    /\ StageFrame
    /\ pc = "stopped"
    /\ runs < MaxRuns
    /\ runs' = runs + 1
    /\ config' = progress
    /\ src_idx' = 1
    /\ pc' = "main"
    /\ exit_cause' = "none"
    /\ kb_denied' = FALSE
    /\ touched' = [s \in Sources |-> {}]
    /\ run_transformed' = [s \in Sources |-> {}]
    /\ UNCHANGED <<stage, lines, progress, out, current_line, pos,
                   line_number, buffer, transformed_ever, committed, checkpointed,
                   reprocessed, window_crash, window_records,
                   lost, flushed>>

\* one turn of __main__'s loop over the sources, up to the first line
NextSource ==
    /\ StageFrame
    /\ pc = "main"
    /\ \/ /\ src_idx > Len(SourceOrder)
          /\ Stopped("complete")
          /\ UNCHANGED <<out, touched>>
       \/ /\ src_idx <= Len(SourceOrder)
          /\ IsDone(config, CurSource)
          /\ src_idx' = src_idx + 1
          /\ UNCHANGED <<pc, exit_cause, current_line, pos, line_number,
                         buffer, out, touched, lost, flushed>>
       \/ /\ src_idx <= Len(SourceOrder)
          /\ ~IsDone(config, CurSource)
          /\ pc' = "loop"
          /\ pos' = 0
          /\ line_number' = LineNumberBeforeLoop(stage)
          /\ buffer' = <<>>
          /\ IF stage = "link"
             THEN \* current_line comes from the document loaded at start;
                  \* the output file is opened for appending
                  /\ current_line' = LineOf(config, CurSource)
                  /\ out' = [out EXCEPT ![CurSource] = OpenOutput(stage, @)]
                  /\ Touch(CurSource, {"open"})
             ELSE \* process_file reads the progress file again; the
                  \* output file is opened with mode "w"
                  /\ current_line' = LineOf(progress, CurSource)
                  /\ out' = [out EXCEPT ![CurSource] = OpenOutput(stage, @)]
                  /\ Touch(CurSource, {"open", "truncate"})
          /\ UNCHANGED <<src_idx, exit_cause, lost, flushed>>
    /\ UNCHANGED <<stage, lines, progress, config, runs, kb_denied,
                   run_transformed, transformed_ever, committed, checkpointed,
                   reprocessed, window_crash, window_records>>

\* the history of one application of the transform to line n
Transformed(s, n) ==
    /\ run_transformed' = [run_transformed EXCEPT ![s] = @ \cup {n}]
    /\ transformed_ever' = [transformed_ever EXCEPT ![s] = @ \cup {n}]
    /\ reprocessed' = IF n \in committed[s]
                      THEN [reprocessed EXCEPT ![s] = @ \cup {n}]
                      ELSE reprocessed

\* the line was transformed and the loop body goes on to its flush test
AfterTransform(n, produced) ==
    /\ buffer' = IF produced THEN Append(buffer, n) ELSE buffer
    /\ pc' = IF FlushDue(stage, n) THEN "flush" ELSE "loop"
    /\ pos' = n
    /\ line_number' = n
    /\ UNCHANGED <<src_idx, current_line, exit_cause, lost, flushed>>

\* one turn of the loop over the input file, up to the flush test
ProcessLine ==
    /\ StageFrame
    /\ pc = "loop"
    /\ LET s == CurSource
           n == pos + 1
       IN \/ \* the file is exhausted
             /\ pos = Len(lines[s])
             /\ pc' = "final"
             /\ UNCHANGED <<src_idx, current_line, pos, line_number, buffer,
                            exit_cause, kb_denied, touched, run_transformed,
                            transformed_ever, reprocessed, lost, flushed>>
          \/ \* a line below the cursor is skipped
             /\ pos < Len(lines[s])
             /\ SkipLine(n, current_line)
             /\ pos' = n
             /\ line_number' = n
             /\ Touch(s, {"read"})
             /\ UNCHANGED <<pc, src_idx, current_line, buffer, exit_cause,
                            kb_denied, run_transformed, transformed_ever,
                            reprocessed, lost, flushed>>
          \/ \* json.loads or a field lookup raises: nothing catches it
             /\ pos < Len(lines[s])
             /\ ~SkipLine(n, current_line)
             /\ lines[s][n] = "bad"
             /\ Stopped("malformed")
             /\ Touch(s, {"read", "transform"})
             /\ Transformed(s, n)
             /\ kb_denied' = FALSE
          \/ \* extract_entities: the model's output holds triplets or none
             /\ pos < Len(lines[s])
             /\ ~SkipLine(n, current_line)
             /\ lines[s][n] = "good"
             /\ stage = "triplet"
             /\ \E produced \in BOOLEAN : AfterTransform(n, produced)
             /\ Touch(s, {"read", "transform"})
             /\ Transformed(s, n)
             /\ kb_denied' = FALSE
          \/ \* filter_entities: the query for the head answers 403
             /\ pos < Len(lines[s])
             /\ ~SkipLine(n, current_line)
             /\ lines[s][n] = "good"
             /\ stage = "link"
             /\ \E head_status \in KBStatuses :
                   /\ SearchWikidata(head_status) = "exit"
                   /\ kb_denied' = (head_status = 403)
             /\ Stopped("forbidden")
             /\ Touch(s, {"read", "transform", "query"})
             /\ Transformed(s, n)
          \/ \* filter_entities: the query for the tail answers 403
             /\ pos < Len(lines[s])
             /\ ~SkipLine(n, current_line)
             /\ lines[s][n] = "good"
             /\ stage = "link"
             /\ \E head_status, tail_status \in KBStatuses :
                   /\ SearchWikidata(head_status) # "exit"
                   /\ SearchWikidata(tail_status) = "exit"
                   /\ kb_denied' = (403 \in {head_status, tail_status})
             /\ Stopped("forbidden")
             /\ Touch(s, {"read", "transform", "query"})
             /\ Transformed(s, n)
          \/ \* filter_entities: both queries answer; an endpoint is linked
             \* when its candidates hold a match, never on an empty list
             /\ pos < Len(lines[s])
             /\ ~SkipLine(n, current_line)
             /\ lines[s][n] = "good"
             /\ stage = "link"
             /\ \E head_status, tail_status \in KBStatuses :
                \E head_match, tail_match \in BOOLEAN :
                   /\ SearchWikidata(head_status) # "exit"
                   /\ SearchWikidata(tail_status) # "exit"
                   /\ kb_denied' = (403 \in {head_status, tail_status})
                   /\ AfterTransform(n,
                         /\ SearchWikidata(head_status) = "results"
                         /\ head_match
                         /\ SearchWikidata(tail_status) = "results"
                         /\ tail_match)
             /\ Touch(s, {"read", "transform", "query"})
             /\ Transformed(s, n)
    /\ UNCHANGED <<stage, lines, progress, out, config, runs, committed, checkpointed,
                   window_crash, window_records>>

\* the records of the buffer are written to the output file
WriteBuffer(s) ==
    /\ out' = [out EXCEPT ![s] = @ \o buffer]
    /\ flushed' = buffer
    /\ Touch(s, {"write"})

\* the line cursor of source s is persisted; every line transformed so far
\* by this process has had its records flushed before
PersistCursor(s) ==
    /\ progress' = UpdateProgressConfig(stage, progress, <<s, "line">>,
                                        JInt(line_number)).doc
    /\ committed' = [committed EXCEPT ![s] = @ \cup run_transformed[s]]
    /\ checkpointed' = [checkpointed EXCEPT ![s] =
                            @ \cup {flushed[i] : i \in 1..Len(flushed)}]
    /\ flushed' = <<>>
    /\ Touch(s, {"checkpoint"})

\* the flush inside the loop, first half: the buffered records are written.
\* filter_entities writes and clears only a non-empty list;
\* extract_entities writes the batch and clears it after the checkpoint.
FlushWrite ==
    /\ StageFrame
    /\ pc = "flush"
    /\ pc' = "checkpoint"
    /\ \/ /\ stage = "link"
          /\ buffer # <<>>
          /\ WriteBuffer(CurSource)
          /\ buffer' = <<>>
       \/ /\ stage = "link"
          /\ buffer = <<>>
          /\ UNCHANGED <<out, touched, buffer, flushed>>
       \/ /\ stage = "triplet"
          /\ WriteBuffer(CurSource)
          /\ UNCHANGED buffer
    /\ UNCHANGED <<stage, lines, progress, config, src_idx, current_line, pos,
                   line_number, runs, kb_denied, exit_cause, run_transformed,
                   transformed_ever, committed, checkpointed, reprocessed, window_crash,
                   window_records, lost>>

\* the flush inside the loop, second half: the cursor is persisted
FlushCheckpoint ==
    /\ StageFrame
    /\ pc = "checkpoint"
    /\ pc' = "loop"
    /\ PersistCursor(CurSource)
    /\ buffer' = <<>>
    /\ UNCHANGED <<stage, lines, out, config, src_idx, current_line, pos,
                   line_number, runs, kb_denied, exit_cause, run_transformed,
                   transformed_ever, reprocessed, window_crash,
                   window_records, lost>>

\* after the loop, first half: the remaining records are written.
\* extract_entities returns without a checkpoint when the batch is empty.
FinalWrite ==
    /\ StageFrame
    /\ pc = "final"
    /\ \/ /\ buffer # <<>>
          /\ WriteBuffer(CurSource)
          /\ buffer' = IF stage = "link" THEN <<>> ELSE buffer
          /\ pc' = "final_checkpoint"
       \/ /\ buffer = <<>>
          /\ pc' = IF stage = "link" THEN "final_checkpoint" ELSE "set_done"
          /\ UNCHANGED <<out, touched, buffer, flushed>>
    /\ UNCHANGED <<stage, lines, progress, config, src_idx, current_line, pos,
                   line_number, runs, kb_denied, exit_cause, run_transformed,
                   transformed_ever, committed, checkpointed, reprocessed, window_crash,
                   window_records, lost>>

\* after the loop, second half: the cursor is persisted
FinalCheckpoint ==
    /\ StageFrame
    /\ pc = "final_checkpoint"
    /\ pc' = "set_done"
    /\ PersistCursor(CurSource)
    /\ buffer' = <<>>
    /\ UNCHANGED <<stage, lines, out, config, src_idx, current_line, pos,
                   line_number, runs, kb_denied, exit_cause, run_transformed,
                   transformed_ever, reprocessed, window_crash,
                   window_records, lost>>

\* __main__ after the stage function returns: status becomes True
SetDone ==
    /\ StageFrame
    /\ pc = "set_done"
    /\ pc' = "main"
    /\ src_idx' = src_idx + 1
    /\ progress' = UpdateProgressConfig(stage, progress,
                                        <<CurSource, "status">>,
                                        JBool(TRUE)).doc
    /\ Touch(CurSource, {"status"})
    /\ UNCHANGED <<stage, lines, out, config, current_line, pos, line_number,
                   buffer, runs, kb_denied, exit_cause, run_transformed,
                   transformed_ever, committed, checkpointed, reprocessed, window_crash,
                   window_records, lost, flushed>>

\* the process is terminated from outside, wherever it is
Interrupt ==
    /\ StageFrame
    /\ pc \notin {"stopped", "idle"}
    /\ Stopped("interrupt")
    /\ window_crash' = (window_crash \/ pc \in {"checkpoint", "final_checkpoint"})
    /\ window_records' = IF pc \in {"checkpoint", "final_checkpoint"}
                         THEN [window_records EXCEPT ![CurSource] = flushed]
                         ELSE window_records
    /\ UNCHANGED <<stage, lines, progress, out, config, runs, kb_denied,
                   touched, run_transformed, transformed_ever, committed, checkpointed,
                   reprocessed>>

PNext ==
    \/ StartRun
    \/ NextSource
    \/ ProcessLine
    \/ FlushWrite
    \/ FlushCheckpoint
    \/ FinalWrite
    \/ FinalCheckpoint
    \/ SetDone
    \/ Interrupt

(***************************************************************************)
(* extract_data.py (process_file) and prep_data.py (clean_comments): the   *)
(* two stages that keep no progress document.  The output file is what a   *)
(* run leaves behind.                                                      *)
(***************************************************************************)
PlainStages == {"extract", "clean"}

\* a line is not JSON ("bad"), or an object with the key created_utc
\* ("good") or without it ("undated")
PlainLineKinds == LineKinds \cup {"undated"}

\* `except (KeyError, json.JSONDecodeError): bad_lines += 1`, whether or not
\* output_file.write was reached before the exception
CountBad(bad, n, written) == bad \cup {n}

\* `if len(valid_lines) >= 100`
CleanBatchSize == 2

\* a run that goes on after the lines an earlier run had read
ResumeAfter(lines_read_before) == lines_read_before

\* `for line, ... in read_lines_zst(...)` / `for line in infile`: the loop
\* begins before the first line, whatever an earlier run had read
ResumeFrom(lines_read_before) == 0

EInit ==
    /\ e_stage \in PlainStages
    /\ e_lines \in SeqsUpTo(PlainLineKinds, MaxLines)
    /\ e_pos = 0
    /\ e_batch = <<>>
    /\ e_out = <<>>
    /\ e_runs = 0
    /\ e_pc = "stopped"
    /\ e_run_lines = {}
    /\ e_before = 0
    /\ e_bad = {}

\* the function up to its loop: the output file is opened with mode "w"
OpenFiles ==
    /\ e_pc = "stopped"
    /\ e_runs < MaxRuns
    /\ e_runs' = e_runs + 1
    /\ e_out' = <<>>
    /\ e_pos' = ResumeFrom(e_before)
    /\ e_batch' = <<>>
    /\ e_run_lines' = {}
    /\ e_bad' = {}
    /\ e_pc' = "loop"
    /\ UNCHANGED <<e_stage, e_lines, e_before, pvars, uvars, rvars, ovars,
                   xvars, kvars>>

\* one turn of the loop; after the loop, the rest of the function
ReadLine ==
    /\ e_pc = "loop"
    /\ LET n == e_pos + 1
       IN \/ \* the file is read: prep_data writes what is left of the batch
             /\ e_pos = Len(e_lines)
             /\ e_out' = e_out \o e_batch
             /\ e_batch' = <<>>
             /\ e_pc' = "done"
             /\ UNCHANGED <<e_pos, e_run_lines, e_bad>>
          \/ \* json.loads raises: the line is counted (extract_data) or
             \* logged (prep_data)
             /\ e_pos < Len(e_lines)
             /\ e_lines[n] = "bad"
             /\ e_pos' = n
             /\ e_run_lines' = e_run_lines \cup {n}
             /\ e_bad' = IF e_stage = "extract" THEN CountBad(e_bad, n, FALSE)
                         ELSE e_bad
             /\ UNCHANGED <<e_out, e_batch, e_pc>>
          \/ \* extract_data: the record is written at once
             /\ e_pos < Len(e_lines)
             /\ e_lines[n] = "good"
             /\ e_stage = "extract"
             /\ e_pos' = n
             /\ e_run_lines' = e_run_lines \cup {n}
             /\ e_out' = Append(e_out, n)
             /\ UNCHANGED <<e_batch, e_pc, e_bad>>
          \/ \* extract_data: the record is written, then obj['created_utc']
             \* raises KeyError
             /\ e_pos < Len(e_lines)
             /\ e_lines[n] = "undated"
             /\ e_stage = "extract"
             /\ e_pos' = n
             /\ e_run_lines' = e_run_lines \cup {n}
             /\ e_out' = Append(e_out, n)
             /\ e_bad' = CountBad(e_bad, n, TRUE)
             /\ UNCHANGED <<e_batch, e_pc>>
          \/ \* prep_data: the text passes the filter or not; the batch is
             \* written when it is full
             /\ e_pos < Len(e_lines)
             /\ e_lines[n] # "bad"
             /\ e_stage = "clean"
             /\ e_pos' = n
             /\ e_run_lines' = e_run_lines \cup {n}
             /\ \E passed \in BOOLEAN :
                   LET valid_lines == IF passed THEN Append(e_batch, n)
                                      ELSE e_batch
                   IN IF Len(valid_lines) >= CleanBatchSize
                      THEN /\ e_out' = e_out \o valid_lines
                           /\ e_batch' = <<>>
                      ELSE /\ e_out' = e_out
                           /\ e_batch' = valid_lines
             /\ UNCHANGED <<e_pc, e_bad>>
    /\ UNCHANGED <<e_stage, e_lines, e_runs, e_before, pvars, uvars, rvars,
                   ovars, xvars, kvars>>

\* the process is terminated from outside during its loop
Terminate ==
    /\ e_pc = "loop"
    /\ e_pc' = "stopped"
    /\ e_before' = IF e_pos > e_before THEN e_pos ELSE e_before
    /\ e_batch' = <<>>
    /\ e_pos' = 0
    /\ e_run_lines' = {}
    /\ e_bad' = {}
    /\ UNCHANGED <<e_stage, e_lines, e_out, e_runs, pvars, uvars, rvars, ovars,
                   xvars, kvars>>

ENext == OpenFiles \/ ReadLine \/ Terminate

(***************************************************************************)
(* update_progress_config called on its own, with any key path.            *)
(***************************************************************************)
\* keys of the document, and one that occurs nowhere in it
Keys == Sources \cup {"path", "line", "status", "missing"}
KeyPaths == SeqsUpTo(Keys, MaxKeyPath) \ {<<>>}
UValues == {JInt(MaxLines), JBool(TRUE)}

\* documents the stages leave behind
UDocs ==
    {JDict([s \in Sources |->
        JDict([path |-> JStr(PathOf(s)), line |-> JInt(ln[s]),
               status |-> JBool(st[s])])]) :
        ln \in [Sources -> {0, LinkFlushInterval}],
        st \in [Sources -> BOOLEAN]}

UInit ==
    /\ u_doc \in UDocs
    /\ u_impl \in Stages
    /\ u_key_path = <<>>
    /\ u_value = JInt(0)
    /\ u_outcome = "none"
    /\ u_before = InitialDoc

\* one call of update_progress_config(key_path, value)
UpdateCall ==
    /\ u_outcome = "none"
    /\ \E key_path \in KeyPaths, value \in UValues :
          LET r == UpdateProgressConfig(u_impl, u_doc, key_path, value)
          IN /\ u_key_path' = key_path
             /\ u_value' = value
             /\ u_before' = u_doc
             /\ u_doc' = r.doc
             /\ u_outcome' = IF r.raised THEN "raised"
                             ELSE IF r.diagnostic THEN "diagnostic"
                             ELSE "updated"
    /\ UNCHANGED <<u_impl, pvars, rvars, ovars, qvars>>

(***************************************************************************)
(* read_and_decode and read_lines_zst.                                     *)
(* A text is a sequence of characters, a stream the sequence of the bytes  *)
(* of its UTF-8 encoding; a byte is <<character, k>>, the k-th byte of     *)
(* that character.                                                         *)
(***************************************************************************)
\* the newline, an ASCII letter, a 3-byte and a 4-byte character
Chars == {"nl", "a", "e3", "e4"}
Width(ch) == CASE ch = "e3" -> 3 [] ch = "e4" -> 4 [] OTHER -> 1

\* str.encode()
RECURSIVE Encode(_)
Encode(text) ==
    IF text = <<>> THEN <<>>
    ELSE [k \in 1..Width(Head(text)) |-> <<Head(text), k>>] \o Encode(Tail(text))

\* bytes.decode(): strict, fails on a character that is cut at either end
RECURSIVE Decode(_)
Decode(bytes) ==
    IF bytes = <<>> THEN [ok |-> TRUE, text |-> <<>>]
    ELSE LET ch == bytes[1][1]
             w == Width(ch)
         IN IF /\ Len(bytes) >= w
               /\ \A k \in 1..w : bytes[k] = <<ch, k>>
            THEN LET rest == Decode(SubSeq(bytes, w + 1, Len(bytes)))
                 IN [ok |-> rest.ok, text |-> <<ch>> \o rest.text]
            ELSE [ok |-> FALSE, text |-> <<>>]

\* read_lines_zst calls read_and_decode(reader, 2**27, (2**29) * 2): the
\* window is 8 chunks; the model keeps that ratio for every chunk size
WindowChunks == 8

\* MaxWindowSize with a window twice as large
MaxWindowSizeDoubled(chunk_size) == 2 * WindowChunks * chunk_size

MaxWindowSize(chunk_size) == WindowChunks * chunk_size

\* reader.read(chunk_size) at offset pos of the decompressed stream
ReaderRead(stream, at, chunk_size) ==
    SubSeq(stream, at + 1,
           IF at + chunk_size < Len(stream) THEN at + chunk_size ELSE Len(stream))

\* JoinChunks that forgets the bytes read before
JoinChunksDropPrevious(previous_chunk, chunk) == chunk

\* `chunk = previous_chunk + chunk` (previous_chunk None: nothing before)
JoinChunks(previous_chunk, chunk) == previous_chunk \o chunk

\* read_and_decode; the result is the decoded string and the reader's new
\* offset, or the error and the byte count of its message
RECURSIVE ReadAndDecode(_, _, _, _, _, _)
ReadAndDecode(stream, at, chunk_size, max_window_size, previous_chunk, bytes_read) ==
    LET read == ReaderRead(stream, at, chunk_size)
        now_at == at + Len(read)
        now_read == bytes_read + chunk_size
        chunk == JoinChunks(previous_chunk, read)
        decoded == Decode(chunk)
    IN IF decoded.ok
       THEN [ok |-> TRUE, text |-> decoded.text, at |-> now_at,
             bytes_read |-> now_read]
       ELSE IF now_read > max_window_size
       THEN [ok |-> FALSE, text |-> <<>>, at |-> now_at,
             bytes_read |-> now_read]
       ELSE ReadAndDecode(stream, now_at, chunk_size, max_window_size,
                          chunk, now_read)

\* str.split("\n")
RECURSIVE SplitNewline(_)
SplitNewline(text) ==
    IF \A i \in 1..Len(text) : text[i] # "nl" THEN <<text>>
    ELSE LET i == CHOOSE j \in 1..Len(text) :
                     text[j] = "nl" /\ \A k \in 1..(j - 1) : text[k] # "nl"
         IN <<SubSeq(text, 1, i - 1)>> \o
            SplitNewline(SubSeq(text, i + 1, Len(text)))

\* Carry that drops the partial line
CarryNothing(split) == <<>>

\* `buffer = lines[-1]`
Carry(split) == split[Len(split)]

\* `for line in lines[:-1]: yield line`
Yielded(split) == SubSeq(split, 1, Len(split) - 1)

\* one turn of read_lines_zst's loop, from a state of the generator
ReadStep(stream, chunk_size, st) ==
    LET r == ReadAndDecode(stream, st.at, chunk_size,
                           MaxWindowSize(chunk_size), <<>>, 0)
        split == SplitNewline(st.buffer \o r.text)
    IN IF ~r.ok
       THEN [st EXCEPT !.pc = "error", !.at = r.at, !.bytes_read = r.bytes_read]
       ELSE IF r.text = <<>>
       THEN [st EXCEPT !.pc = "done", !.at = r.at, !.bytes_read = r.bytes_read]
       ELSE [pc |-> "reading", at |-> r.at, bytes_read |-> r.bytes_read,
             buffer |-> Carry(split),
             yielded |-> st.yielded \o Yielded(split)]

\* read_lines_zst run to its end: everything it yields, and how it ends
RECURSIVE ReadLoop(_, _, _)
ReadLoop(stream, chunk_size, st) ==
    IF st.pc # "reading" THEN st
    ELSE ReadLoop(stream, chunk_size, ReadStep(stream, chunk_size, st))

ReaderStart ==
    [pc |-> "reading", at |-> 0, bytes_read |-> 0, buffer |-> <<>>,
     yielded |-> <<>>]

ReadLinesZst(stream, chunk_size) == ReadLoop(stream, chunk_size, ReaderStart)

ChunkSizes == 1..MaxChunkSize

\* the call-by-call reader when it is not the part under study
DIdle ==
    /\ d_stream = <<>>
    /\ d_chunk_size = 1
    /\ d_pos = 0
    /\ d_previous_chunk = <<>>
    /\ d_bytes_read = 0
    /\ d_buffer = <<>>
    /\ d_yielded = <<>>
    /\ d_pc = "idle"

RInit ==
    /\ r_stream \in {Encode(text) : text \in SeqsUpTo(Chars, MaxChars)}
    /\ r_chunk_size \in ChunkSizes
    /\ r_pc = ReaderStart.pc
    /\ r_pos = ReaderStart.at
    /\ r_bytes_read = ReaderStart.bytes_read
    /\ r_buffer = ReaderStart.buffer
    /\ r_yielded = ReaderStart.yielded
    /\ DIdle

\* one turn of the `while True` loop of read_lines_zst, with its yields
ReadChunk ==
    /\ r_pc = "reading"
    /\ LET st == ReadStep(r_stream, r_chunk_size,
                          [pc |-> r_pc, at |-> r_pos,
                           bytes_read |-> r_bytes_read,
                           buffer |-> r_buffer, yielded |-> r_yielded])
       IN /\ r_pc' = st.pc
          /\ r_pos' = st.at
          /\ r_bytes_read' = st.bytes_read
          /\ r_buffer' = st.buffer
          /\ r_yielded' = st.yielded
    /\ UNCHANGED <<r_stream, r_chunk_size, dvars, pvars, uvars, ovars, qvars>>

(***************************************************************************)
(* extract_triplets.                                                       *)
(* A text is the sequence of its whitespace-separated items.  A string     *)
(* built by the parser is the sequence of its pieces, each a word or the   *)
(* single space " ".                                                       *)
(***************************************************************************)
Markers == {"<triplet>", "<subj>", "<obj>"}
Sentinels == {"<s>", "<pad>", "</s>"}
Words == {"Earth", "Sun"}

\* text.replace("<s>", "").replace("<pad>", "").replace("</s>", "").split()
RECURSIVE Tokens(_)
Tokens(text) ==
    IF text = <<>> THEN <<>>
    ELSE IF Head(text) \in Sentinels THEN Tokens(Tail(text))
    ELSE <<Head(text)>> \o Tokens(Tail(text))

\* str.strip()
RECURSIVE Strip(_)
Strip(str) ==
    IF str = <<>> THEN <<>>
    ELSE IF Head(str) = " " THEN Strip(Tail(str))
    ELSE IF str[Len(str)] = " " THEN Strip(SubSeq(str, 1, Len(str) - 1))
    ELSE str

\* Triplet with head and tail exchanged
TripletSwapped(subject, relation, object_) ==
    [head |-> Strip(object_), type |-> Strip(relation), tail |-> Strip(subject)]

\* {"head": subject.strip(), "type": relation.strip(), "tail": object_.strip()}
Triplet(subject, relation, object_) ==
    [head |-> Strip(subject), type |-> Strip(relation), tail |-> Strip(object_)]

ParserStart ==
    [triplets |-> <<>>, relation |-> <<>>, subject |-> <<>>, object_ |-> <<>>,
     current |-> "x"]

\* the body of the loop over the tokens
TokenStep(st, token) ==
    CASE token = "<triplet>" ->
           IF st.relation # <<>>
           THEN [triplets |-> Append(st.triplets,
                                     Triplet(st.subject, st.relation, st.object_)),
                 relation |-> <<>>, subject |-> <<>>, object_ |-> <<>>,
                 current |-> "t"]
           ELSE [st EXCEPT !.current = "t"]
      [] token = "<subj>" ->
           IF st.relation # <<>>
           THEN [st EXCEPT !.triplets = Append(st.triplets,
                                     Triplet(st.subject, st.relation, st.object_)),
                           !.subject = <<>>, !.object_ = <<>>,
                           !.current = "s"]
           ELSE [st EXCEPT !.current = "s"]
      [] token = "<obj>" ->
           [st EXCEPT !.current = "o", !.relation = <<>>]
      [] OTHER ->
           CASE st.current = "t" -> [st EXCEPT !.subject = @ \o <<" ", token>>]
             [] st.current = "s" -> [st EXCEPT !.object_ = @ \o <<" ", token>>]
             [] st.current = "o" -> [st EXCEPT !.relation = @ \o <<" ", token>>]
             [] OTHER -> st

\* a return that appends a last triplet whenever a relation is pending
TripletsReturnedLoose(st) ==
    IF st.relation # <<>>
    THEN Append(st.triplets, Triplet(st.subject, st.relation, st.object_))
    ELSE st.triplets

\* `if subject and relation and object_:` after the loop, and the return
TripletsReturned(st) ==
    IF st.subject # <<>> /\ st.relation # <<>> /\ st.object_ # <<>>
    THEN Append(st.triplets, Triplet(st.subject, st.relation, st.object_))
    ELSE st.triplets

RECURSIVE TokenLoop(_, _)
TokenLoop(st, tokens) ==
    IF tokens = <<>> THEN st
    ELSE TokenLoop(TokenStep(st, Head(tokens)), Tail(tokens))

ExtractTriplets(text) == TripletsReturned(TokenLoop(ParserStart, Tokens(text)))

\* the non-empty runs of words a head, tail or relation is made of
Runs == SeqsUpTo(Words, MaxRun) \ {<<>>}

\* "<triplet> h <subj> t <obj> r"
TripletText(run) ==
    <<"<triplet>">> \o run.h \o <<"<subj>">> \o run.t \o <<"<obj>">> \o run.r

RECURSIVE WellFormedText(_)
WellFormedText(triplet_runs) ==
    IF triplet_runs = <<>> THEN <<>>
    ELSE TripletText(Head(triplet_runs)) \o WellFormedText(Tail(triplet_runs))

RunSize(run) == Len(run.h) + Len(run.t) + Len(run.r)

\* the runs of one triplet that hold at most w words, for every w
TripletRunsUpTo ==
    [w \in 0..MaxWords |->
        {x \in [h : Runs, t : Runs, r : Runs] : RunSize(x) <= w}]

\* t_runs is `chosen` followed by the runs of k more triplets that hold at
\* most `words` words
RECURSIVE RunsChosen(_, _, _)
RunsChosen(k, words, chosen) ==
    IF k = 0 THEN t_runs = chosen
    ELSE /\ words >= 3 * k
         /\ \E run \in TripletRunsUpTo[words - 3 * (k - 1)] :
               RunsChosen(k - 1, words - RunSize(run), Append(chosen, run))

\* the decoder's output with its special tokens (skip_special_tokens=False)
WithSentinels(text) == <<"<s>">> \o text \o <<"</s>", "<pad>">>

\* the example prediction
ExampleRuns == <<[h |-> <<"Earth">>, t |-> <<"Sun">>, r |-> <<"orbits">>]>>

TInit ==
    /\ \/ \E k \in 1..(MaxWords \div 3) : RunsChosen(k, MaxWords, <<>>)
       \/ t_runs = ExampleRuns
    /\ t_text \in {WellFormedText(t_runs), WithSentinels(WellFormedText(t_runs))}
    /\ t_triplets = <<>>
    /\ t_pc = "called"

\* extract_triplets(sentence)
ExtractCall ==
    /\ t_pc = "called"
    /\ t_triplets' = ExtractTriplets(t_text)
    /\ t_pc' = "returned"
    /\ UNCHANGED <<t_text, t_runs, pvars, uvars, rvars, wvars, gvars, nvars,
                   qvars>>

(***************************************************************************)
(* search_wikidata, best_single_record_similarity and                      *)
(* filter_wikidata_results.                                                *)
(* A candidate record is [label, similarities]: the label is named by the  *)
(* record's place in the response; similarities[1] is                      *)
(* fuzz.ratio(label, original_term), the others are the ratios of the      *)
(* record's aliases.                                                       *)
(***************************************************************************)
(* extract_triplets one token at a time, on any text of markers and words. *)
(***************************************************************************)
\* the longest text, in pieces
MaxTokens == 6

Pieces == Markers \cup Words

XInit ==
    /\ x_text \in SeqsUpTo(Pieces, MaxTokens)
    /\ x_rest = Tokens(x_text)
    /\ x_st = ParserStart
    /\ x_token = ""
    /\ x_return = <<>>
    /\ x_pc = "loop"

\* one turn of the loop over the tokens
ReadToken ==
    /\ x_pc = "loop"
    /\ x_rest # <<>>
    /\ x_token' = Head(x_rest)
    /\ x_st' = TokenStep(x_st, Head(x_rest))
    /\ x_rest' = Tail(x_rest)
    /\ UNCHANGED <<x_text, x_return, x_pc, pvars, uvars, rvars, ovars, kvars,
                   evars>>

\* the tokens are used up: the test after the loop, and the return
ReturnTriplets ==
    /\ x_pc = "loop"
    /\ x_rest = <<>>
    /\ x_return' = TripletsReturned(x_st)
    /\ x_pc' = "returned"
    /\ UNCHANGED <<x_text, x_rest, x_st, x_token, pvars, uvars, rvars, ovars,
                   kvars, evars>>

(***************************************************************************)
\* values of fuzz.ratio
Scores == {0, 50, 80, 100}
\* Constants.SIMILARITY_THRESHOLD
SIMILARITY_THRESHOLD == 70
Thresholds == {0, 50, SIMILARITY_THRESHOLD, 100}

None == <<>>
Label(record) == <<record.label>>

\* query_wikidata.search_wikidata: what a response with this status code
\* leads to
SearchWikidataUtility(status_code) ==
    IF status_code = 200 THEN "results" ELSE "empty"

\* best_single_record_similarity that looks at the label only
LabelSimilarityOnly(record) == record.similarities[1]

\* best_single_record_similarity: max over the label and the aliases
BestSingleRecordSimilarity(record) ==
    CHOOSE x \in {record.similarities[k] : k \in 1..Len(record.similarities)} :
        \A k \in 1..Len(record.similarities) : record.similarities[k] <= x

\* the loop of filter_wikidata_results over the rest of the results
RECURSIVE FilterLoop(_, _, _, _)
FilterLoop(wikidata_results, threshold, best_match, highest_similarity) ==
    IF wikidata_results = <<>> THEN best_match
    ELSE LET result == Head(wikidata_results)
             similarity == BestSingleRecordSimilarity(result)
         IN IF similarity = 100 THEN Label(result)
            ELSE IF similarity > highest_similarity /\ similarity >= threshold
            THEN FilterLoop(Tail(wikidata_results), threshold,
                            Label(result), similarity)
            ELSE FilterLoop(Tail(wikidata_results), threshold,
                            best_match, highest_similarity)

FilterWikidataResults(wikidata_results, threshold) ==
    FilterLoop(wikidata_results, threshold, None, 0)

\* the response's records: `scores` cut into records after the places in
\* `cuts`, the records labelled in order from `label`
RECURSIVE Records(_, _, _, _)
Records(scores, cuts, from, label) ==
    IF from > Len(scores) THEN <<>>
    ELSE LET to == CHOOSE c \in (cuts \cup {Len(scores)}) :
                       /\ c >= from
                       /\ \A d \in (cuts \cup {Len(scores)}) : d >= from => c <= d
         IN <<[label |-> label, similarities |-> SubSeq(scores, from, to)]>>
            \o Records(scores, cuts, to + 1, label + 1)

WInit ==
    /\ w_impl \in {"filter_entities", "query_wikidata"}
    /\ w_status_code \in KBStatuses
    /\ IF w_status_code = 200
       THEN \E scores \in SeqsUpTo(Scores, MaxScores) :
               \E cuts \in SUBSET (1..(Len(scores) - 1)) :
                   w_received = Records(scores, cuts, 1, 1)
       ELSE w_received = <<>>
    /\ w_threshold \in Thresholds
    /\ w_results = <<>>
    /\ w_return = None
    /\ w_pc = "search"

\* search_wikidata(term)
SearchCall ==
    /\ w_pc = "search"
    /\ LET outcome == IF w_impl = "filter_entities"
                      THEN SearchWikidata(w_status_code)
                      ELSE SearchWikidataUtility(w_status_code)
       IN /\ w_results' = IF outcome = "results" THEN w_received ELSE <<>>
          /\ w_pc' = IF outcome = "exit" THEN "exited"
                     ELSE IF w_impl = "filter_entities" THEN "filter"
                     ELSE "searched"
    /\ UNCHANGED <<w_impl, w_status_code, w_received, w_threshold, w_return,
                   pvars, uvars, rvars, tvars, gvars, nvars, qvars>>

\* filter_wikidata_results(term, results, threshold) of filter_entities.py
FilterCall ==
    /\ w_pc = "filter"
    /\ w_return' = FilterWikidataResults(w_results, w_threshold)
    /\ w_pc' = "returned"
    /\ UNCHANGED <<w_impl, w_status_code, w_received, w_threshold, w_results,
                   pvars, uvars, rvars, tvars, gvars, nvars, qvars>>

(***************************************************************************)
(* process_and_link_entities: the body of the loop for one line, from      *)
(* json.loads to the append to triplets.                                   *)
(***************************************************************************)
\* the most records in a response
MaxCandidates == 2

\* the records of a response, without aliases, labelled from `first` on; a
\* label of Wikidata is a non-empty string
Candidates(scores, first) ==
    [i \in 1..Len(scores) |-> [label |-> first + i, similarities |-> <<scores[i]>>]]

\* `linked_head or linked_tail`
EitherLinked(linked_head, linked_tail) ==
    linked_head # None \/ linked_tail # None

\* `if linked_head and linked_tail:`: None is false, a label is true
BothLinked(linked_head, linked_tail) ==
    linked_head # None /\ linked_tail # None

\* the dict appended to triplets; the two labels are held as the resolver
\* returned them
LinkedTriplet(record, linked_head, linked_tail) ==
    [linked_head |-> linked_head,
     original_head |-> record.head,
     type |-> record.type,
     linked_tail |-> linked_tail,
     original_tail |-> record.tail]

\* search_wikidata followed by filter_wikidata_results, for one endpoint
Resolve(status_code, received) ==
    IF SearchWikidata(status_code) = "results"
    THEN FilterWikidataResults(received, SIMILARITY_THRESHOLD)
    ELSE FilterWikidataResults(<<>>, SIMILARITY_THRESHOLD)

KInit ==
    /\ k_record \in [head : Words, type : {"orbits"}, tail : Words]
    /\ k_head_status \in KBStatuses
    /\ k_tail_status \in KBStatuses
    /\ \E scores \in SeqsUpTo(Scores, MaxCandidates) :
          k_head_received = IF k_head_status = 200 THEN Candidates(scores, 0)
                            ELSE <<>>
    /\ \E scores \in SeqsUpTo(Scores, MaxCandidates) :
          k_tail_received = IF k_tail_status = 200 THEN Candidates(scores, 10)
                            ELSE <<>>
    /\ k_linked_head = None
    /\ k_linked_tail = None
    /\ k_triplets = <<>>
    /\ k_pc = "line"

\* one turn of the loop, up to the flush test
LinkLine ==
    /\ k_pc = "line"
    /\ IF SearchWikidata(k_head_status) = "exit"
       THEN /\ k_pc' = "exited"
            /\ UNCHANGED <<k_linked_head, k_linked_tail, k_triplets>>
       ELSE IF SearchWikidata(k_tail_status) = "exit"
       THEN /\ k_linked_head' = Resolve(k_head_status, k_head_received)
            /\ k_pc' = "exited"
            /\ UNCHANGED <<k_linked_tail, k_triplets>>
       ELSE /\ k_linked_head' = Resolve(k_head_status, k_head_received)
            /\ k_linked_tail' = Resolve(k_tail_status, k_tail_received)
            /\ IF BothLinked(k_linked_head', k_linked_tail')
               THEN /\ k_triplets' = Append(k_triplets,
                           LinkedTriplet(k_record, k_linked_head',
                                         k_linked_tail'))
                    /\ k_pc' = "linked"
               ELSE /\ k_triplets' = k_triplets
                    /\ k_pc' = "skipped"
    /\ UNCHANGED <<k_record, k_head_status, k_head_received, k_tail_status,
                   k_tail_received, pvars, uvars, rvars, ovars, xvars, evars>>

(***************************************************************************)
(* build_graph_data.py: generate_raw_edge_counts and normalize_edges.      *)
(* A weight computed by normalize_edges is the fraction <<n, d>>, d > 0,   *)
(* in lowest terms: the exact value of the float the code computes.        *)
(***************************************************************************)
\* labels in the order of Python's string comparison
LabelOrder == <<"a", "b", "c", "d">>
Labels == {LabelOrder[i] : i \in 1..Len(LabelOrder)}
Rank(label) == CHOOSE i \in 1..Len(LabelOrder) : LabelOrder[i] = label
\* the endpoints of ingested triples
TripleLabels == {"a", "b", "c"}
\* raw edge weights handed to normalize_edges
Weights == {1, 5, 10}

LARGE_RENORMALIZATION_THRESHOLD == 10
SMALL_RENORMALIZATION_THRESHOLD == 98
RenormalizationThresholds ==
    {0, LARGE_RENORMALIZATION_THRESHOLD, 50, SMALL_RENORMALIZATION_THRESHOLD, 100}

\* key that keeps the direction of the triple
DirectedKey(h, t) == <<h, t>>

\* tuple(sorted([h, t]))
SortedKey(h, t) == IF Rank(h) <= Rank(t) THEN <<h, t>> ELSE <<t, h>>

\* edge_counts[key] += 1 on a dict that keeps its keys in insertion order:
\* a sequence of [key, count]
CountKey(edge_counts, key) ==
    IF \E i \in 1..Len(edge_counts) : edge_counts[i].key = key
    THEN [i \in 1..Len(edge_counts) |->
             IF edge_counts[i].key = key
             THEN [edge_counts[i] EXCEPT !.count = @ + 1]
             ELSE edge_counts[i]]
    ELSE Append(edge_counts, [key |-> key, count |-> 1])

\* the loop of generate_raw_edge_counts over the rest of the rows
RECURSIVE CountEdges(_, _)
CountEdges(kg_nodes_edges, edge_counts) ==
    IF kg_nodes_edges = <<>> THEN edge_counts
    ELSE LET row == Head(kg_nodes_edges)
             h == row.linked_head
             t == row.linked_tail
         IN IF h = t
            THEN CountEdges(Tail(kg_nodes_edges), edge_counts)
            ELSE CountEdges(Tail(kg_nodes_edges),
                            CountKey(edge_counts, SortedKey(h, t)))

GenerateRawEdgeCounts(kg_nodes_edges) ==
    LET edge_counts == CountEdges(kg_nodes_edges, <<>>)
    IN [i \in 1..Len(edge_counts) |->
           [head |-> edge_counts[i].key[1], tail |-> edge_counts[i].key[2],
            raw_edge_weight |-> edge_counts[i].count]]

RECURSIVE GCD(_, _)
GCD(x, y) == IF y = 0 THEN x ELSE GCD(y, x % y)

\* the fraction n / d, d > 0, in lowest terms
Frac(n, d) == LET g == GCD(n, d) IN <<n \div g, d \div g>>
One == <<1, 1>>
FracLess(x, y) == x[1] * y[2] < y[1] * x[2]
\* (x - lo) / (hi - lo) for fractions lo < hi, lo <= x
FracScale(x, lo, hi) ==
    Frac((x[1] * lo[2] - lo[1] * x[2]) * hi[2] * lo[2],
         (hi[1] * lo[2] - lo[1] * hi[2]) * x[2] * lo[2])

\* min() and max() of a non-empty list of fractions
MinOf(ws) == ws[CHOOSE i \in 1..Len(ws) : \A j \in 1..Len(ws) : ~FracLess(ws[j], ws[i])]
MaxOf(ws) == ws[CHOOSE i \in 1..Len(ws) : \A j \in 1..Len(ws) : ~FracLess(ws[i], ws[j])]

\* normalisation that divides by the largest weight only
ScaleByMax(ws) ==
    [i \in 1..Len(ws) |-> FracScale(ws[i], <<0, 1>>, MaxOf(ws))]

\* min-max normalisation of a non-empty list: 1.0 everywhere if all values
\* are equal, (w - min) / (max - min) otherwise
MinMax(ws) ==
    IF MaxOf(ws) = MinOf(ws) THEN [i \in 1..Len(ws) |-> One]
    ELSE [i \in 1..Len(ws) |-> FracScale(ws[i], MinOf(ws), MaxOf(ws))]

\* sorted(): insertion of x into an ascending list, and the sort
RECURSIVE Insert(_, _)
Insert(x, sorted) ==
    IF sorted = <<>> THEN <<x>>
    ELSE IF FracLess(x, Head(sorted)) THEN <<x>> \o sorted
    ELSE <<Head(sorted)>> \o Insert(x, Tail(sorted))

RECURSIVE Sorted(_)
Sorted(ws) == IF ws = <<>> THEN <<>> ELSE Insert(Head(ws), Sorted(Tail(ws)))

\* pruning at every threshold
PrunesAlways(renormalization_threshold) == TRUE

\* `if renormalization_threshold > 0:`
Prunes(renormalization_threshold) == renormalization_threshold > 0

\* an index that falls as the threshold rises
CutoffIndexFalling(n, renormalization_threshold) ==
    (n * (100 - renormalization_threshold)) \div 100

\* int(len(normalized_weights) * renormalization_threshold / 100)
CutoffIndex(n, renormalization_threshold) == (n * renormalization_threshold) \div 100

\* the places of the list, in order, whose value is at or above the
\* threshold
RECURSIVE AtOrAbove(_, _, _)
AtOrAbove(ws, threshold, i) ==
    IF i > Len(ws) THEN <<>>
    ELSE IF ~FracLess(ws[i], threshold) THEN <<i>> \o AtOrAbove(ws, threshold, i + 1)
    ELSE AtOrAbove(ws, threshold, i + 1)

\* the places of the list, in order, whose value is above the threshold
RECURSIVE Above(_, _, _)
Above(ws, threshold, i) ==
    IF i > Len(ws) THEN <<>>
    ELSE IF FracLess(threshold, ws[i]) THEN <<i>> \o Above(ws, threshold, i + 1)
    ELSE Above(ws, threshold, i + 1)

\* the surviving weights left as they are
RenormalizeSkipped(nw_remaining) == nw_remaining

\* the renormalization of the remaining edges
Renormalize(nw_remaining) == MinMax(nw_remaining)

\* the caller's list when the function works on the caller's own dicts
InputAliased(kg_data_raw_edge_counts, worked_on) == worked_on

\* `kg_data_raw_edge_counts = [e.copy() for e in kg_data_raw_edge_counts]`:
\* the function works on copies, the caller's list keeps its dicts
InputProtected(kg_data_raw_edge_counts, worked_on) == kg_data_raw_edge_counts

\* normalize_edges: the exception raised, or the list returned with, for
\* the claims, the values of its local normalized_weights and the places of
\* the input edges that were kept; input_after is the caller's list after
\* the call
NormalizeEdges(kg_data_raw_edge_counts, renormalization_threshold) ==
    LET n == Len(kg_data_raw_edge_counts)
        raw_weights == [i \in 1..n |->
                           <<kg_data_raw_edge_counts[i].raw_edge_weight, 1>>]
        normalized_weights == MinMax(raw_weights)
        \* the dicts after `e['_normalized'] = nw`
        attached == [i \in 1..n |->
                        kg_data_raw_edge_counts[i]
                            @@ ("_normalized" :> normalized_weights[i])]
        index == CutoffIndex(n, renormalization_threshold)
        threshold == Sorted(normalized_weights)[index + 1]
        kept == IF Prunes(renormalization_threshold)
                THEN Above(normalized_weights, threshold, 1)
                ELSE [i \in 1..n |-> i]
        nw_remaining == [k \in 1..Len(kept) |-> normalized_weights[kept[k]]]
        renormalized == Renormalize(nw_remaining)
        edges == [k \in 1..Len(kept) |->
                     [head |-> kg_data_raw_edge_counts[kept[k]].head,
                      tail |-> kg_data_raw_edge_counts[kept[k]].tail,
                      edge_weight |-> renormalized[k]]]
        \* the dicts at the return: those kept have their keys replaced
        replaced == [i \in 1..n |->
                        IF \E k \in 1..Len(kept) : kept[k] = i
                        THEN edges[CHOOSE k \in 1..Len(kept) : kept[k] = i]
                        ELSE attached[i]]
    IN IF n = 0
       THEN [raised |-> "ValueError", edges |-> <<>>, normalized |-> <<>>,
             kept |-> <<>>, input_after |-> kg_data_raw_edge_counts]
       ELSE IF \E i \in 1..n :
                  "raw_edge_weight" \notin DOMAIN kg_data_raw_edge_counts[i]
       THEN [raised |-> "KeyError", edges |-> <<>>, normalized |-> <<>>,
             kept |-> <<>>, input_after |-> kg_data_raw_edge_counts]
       ELSE IF Prunes(renormalization_threshold) /\ index >= n
       THEN [raised |-> "IndexError", edges |-> <<>>,
             normalized |-> normalized_weights, kept |-> <<>>,
             input_after |-> InputProtected(kg_data_raw_edge_counts, attached)]
       ELSE [raised |-> "none",
             edges |-> edges,
             normalized |-> normalized_weights,
             kept |-> kept,
             input_after |-> InputProtected(kg_data_raw_edge_counts, replaced)]

NoResult ==
    [raised |-> "none", edges |-> <<>>, normalized |-> <<>>, kept |-> <<>>,
     input_after |-> <<>>]

GInit ==
    /\ g_triples \in SeqsUpTo([linked_head : TripleLabels, linked_tail : TripleLabels],
                              MaxTriples)
    /\ g_raw = <<>>
    /\ g_large = NoResult
    /\ g_small = NoResult
    /\ g_pc = "aggregate"

\* raw_kg_data = generate_raw_edge_counts(raw_kg_triples)
Aggregate ==
    /\ g_pc = "aggregate"
    /\ g_raw' = GenerateRawEdgeCounts(g_triples)
    /\ g_pc' = "large"
    /\ UNCHANGED <<g_triples, g_large, g_small, pvars, uvars, rvars, tvars,
                   wvars, nvars, qvars>>

\* large_kg_data = normalize_edges(raw_kg_data, LARGE_RENORMALIZATION_THRESHOLD)
NormalizeLarge ==
    /\ g_pc = "large"
    /\ g_large' = NormalizeEdges(g_raw, LARGE_RENORMALIZATION_THRESHOLD)
    /\ g_raw' = g_large'.input_after
    /\ g_pc' = IF g_large'.raised = "none" THEN "small" ELSE "raised"
    /\ UNCHANGED <<g_triples, g_small, pvars, uvars, rvars, tvars, wvars, nvars,
                   qvars>>

\* small_kg_data = normalize_edges(raw_kg_data, SMALL_RENORMALIZATION_THRESHOLD)
NormalizeSmall ==
    /\ g_pc = "small"
    /\ g_small' = NormalizeEdges(g_raw, SMALL_RENORMALIZATION_THRESHOLD)
    /\ g_raw' = g_small'.input_after
    /\ g_pc' = IF g_small'.raised = "none" THEN "export" ELSE "raised"
    /\ UNCHANGED <<g_triples, g_large, pvars, uvars, rvars, tvars, wvars, nvars,
                   qvars>>

\* the unordered pairs of labels, as sorted keys
EdgeKeys == {k \in Labels \X Labels : Rank(k[1]) < Rank(k[2])}

NInit ==
    /\ \E keys \in SeqsUpTo(EdgeKeys, MaxEdges) :
          /\ \A i, j \in 1..Len(keys) : i # j => keys[i] # keys[j]
          /\ \E ws \in [1..Len(keys) -> Weights] :
                n_raw = [i \in 1..Len(keys) |->
                            [head |-> keys[i][1], tail |-> keys[i][2],
                             raw_edge_weight |-> ws[i]]]
    /\ n_threshold \in RenormalizationThresholds
    /\ n_result = NoResult
    /\ n_pc = "called"

\* normalize_edges(kg_data_raw_edge_counts, renormalization_threshold)
NormalizeCall ==
    /\ n_pc = "called"
    /\ n_result' = NormalizeEdges(n_raw, n_threshold)
    /\ n_pc' = IF n_result'.raised = "none" THEN "returned" ELSE "raised"
    /\ n_raw' = n_result'.input_after
    /\ UNCHANGED <<n_threshold, pvars, uvars, rvars, tvars, wvars, gvars, qvars>>

(***************************************************************************)
(* Idle values of the parts a specification does not exercise.             *)
(***************************************************************************)
UIdle ==
    /\ u_doc = InitialDoc
    /\ u_key_path = <<>>
    /\ u_value = JInt(0)
    /\ u_impl = "link"
    /\ u_outcome = "none"
    /\ u_before = InitialDoc

PIdle ==
    /\ stage = "link"
    /\ lines = [s \in Sources |-> <<>>]
    /\ progress = InitialDoc
    /\ out = [s \in Sources |-> <<>>]
    /\ pc = "idle"
    /\ config = InitialDoc
    /\ src_idx = 0
    /\ current_line = 0
    /\ pos = 0
    /\ line_number = 0
    /\ buffer = <<>>
    /\ runs = 0
    /\ kb_denied = FALSE
    /\ exit_cause = "none"
    /\ touched = [s \in Sources |-> {}]
    /\ run_transformed = [s \in Sources |-> {}]
    /\ transformed_ever = [s \in Sources |-> {}]
    /\ committed = [s \in Sources |-> {}]
    /\ checkpointed = [s \in Sources |-> {}]
    /\ reprocessed = [s \in Sources |-> {}]
    /\ window_crash = FALSE
    /\ flushed = <<>>
    /\ window_records = [s \in Sources |-> <<>>]
    /\ lost = <<>>

RIdle ==
    /\ r_stream = <<>>
    /\ r_chunk_size = 1
    /\ r_pos = 0
    /\ r_buffer = <<>>
    /\ r_yielded = <<>>
    /\ r_pc = "idle"
    /\ r_bytes_read = 0
    /\ DIdle

TIdle ==
    /\ t_text = <<>>
    /\ t_runs = <<>>
    /\ t_triplets = <<>>
    /\ t_pc = "idle"

WIdle ==
    /\ w_impl = "filter_entities"
    /\ w_status_code = 200
    /\ w_received = <<>>
    /\ w_threshold = SIMILARITY_THRESHOLD
    /\ w_results = <<>>
    /\ w_return = None
    /\ w_pc = "idle"

GIdle ==
    /\ g_triples = <<>>
    /\ g_raw = <<>>
    /\ g_large = NoResult
    /\ g_small = NoResult
    /\ g_pc = "idle"

NIdle ==
    /\ n_raw = <<>>
    /\ n_threshold = 0
    /\ n_result = NoResult
    /\ n_pc = "idle"

OIdle == TIdle /\ WIdle /\ GIdle /\ NIdle

XIdle ==
    /\ x_text = <<>>
    /\ x_rest = <<>>
    /\ x_st = ParserStart
    /\ x_token = ""
    /\ x_return = <<>>
    /\ x_pc = "idle"

KIdle ==
    /\ k_record = [head |-> "", type |-> "", tail |-> ""]
    /\ k_head_status = 200
    /\ k_head_received = <<>>
    /\ k_tail_status = 200
    /\ k_tail_received = <<>>
    /\ k_linked_head = None
    /\ k_linked_tail = None
    /\ k_triplets = <<>>
    /\ k_pc = "idle"

EIdle ==
    /\ e_stage = "extract"
    /\ e_lines = <<>>
    /\ e_pos = 0
    /\ e_batch = <<>>
    /\ e_out = <<>>
    /\ e_runs = 0
    /\ e_pc = "idle"
    /\ e_run_lines = {}
    /\ e_before = 0
    /\ e_bad = {}

QIdle == XIdle /\ KIdle /\ EIdle

Init == PInit /\ UIdle /\ RIdle /\ OIdle /\ QIdle
Next == PNext
Spec == Init /\ [][Next]_vars

\* read_lines_zst alone
InitReader == RInit /\ PIdle /\ UIdle /\ OIdle /\ QIdle
NextReader == ReadChunk
SpecReader == InitReader /\ [][NextReader]_vars

\* read_lines_zst on any stream of bytes: the encoding of a text, or one cut
\* short anywhere (a file that ends inside a character)
RawStreams ==
    UNION {{SubSeq(Encode(text), 1, n) : n \in 0..Len(Encode(text))} :
              text \in SeqsUpTo(Chars, MaxRawChars)}

RInitRaw ==
    /\ r_stream \in RawStreams
    /\ r_chunk_size \in ChunkSizes
    /\ r_pc = ReaderStart.pc
    /\ r_pos = ReaderStart.at
    /\ r_bytes_read = ReaderStart.bytes_read
    /\ r_buffer = ReaderStart.buffer
    /\ r_yielded = ReaderStart.yielded
    /\ DIdle

InitReaderRaw == RInitRaw /\ PIdle /\ UIdle /\ OIdle /\ QIdle
NextReaderRaw == ReadChunk
SpecReaderRaw == InitReaderRaw /\ [][NextReaderRaw]_vars

\* read_lines_zst call by call: each step is one call of read_and_decode,
\* made by the loop or by read_and_decode itself
DInit ==
    /\ d_stream \in RawStreams
    /\ d_chunk_size \in ChunkSizes
    /\ d_pc = "loop"
    /\ d_pos = 0
    /\ d_previous_chunk = <<>>
    /\ d_bytes_read = 0
    /\ d_buffer = <<>>
    /\ d_yielded = <<>>

\* one call read_and_decode(reader, chunk_size, max_window_size,
\* previous_chunk, bytes_read) and, when it returns to the loop, the rest of
\* that turn of the loop
Call(previous_chunk, bytes_read) ==
    \E read \in {ReaderRead(d_stream, d_pos, d_chunk_size)} :
    \E chunk \in {JoinChunks(previous_chunk, read)} :
    \E decoded \in {Decode(chunk)} :
    \E split \in {SplitNewline(d_buffer \o decoded.text)} :
    LET now_read == bytes_read + d_chunk_size
    IN /\ d_pos' = d_pos + Len(read)
       /\ d_bytes_read' = now_read
       /\ \/ \* the chunk decodes to nothing: `if not chunk: break`
             /\ decoded.ok
             /\ decoded.text = <<>>
             /\ d_pc' = "done"
             /\ UNCHANGED <<d_previous_chunk, d_buffer, d_yielded>>
          \/ \* the chunk decodes: its lines are yielded
             /\ decoded.ok
             /\ decoded.text # <<>>
             /\ d_pc' = "loop"
             /\ d_buffer' = Carry(split)
             /\ d_yielded' = d_yielded \o Yielded(split)
             /\ UNCHANGED d_previous_chunk
          \/ \* UnicodeDecodeError within the window: read_and_decode
             \* calls itself with the bytes read so far
             /\ ~decoded.ok
             /\ now_read <= MaxWindowSize(d_chunk_size)
             /\ d_pc' = "retry"
             /\ d_previous_chunk' = chunk
             /\ UNCHANGED <<d_buffer, d_yielded>>
          \/ \* UnicodeDecodeError past the window: UnicodeError
             /\ ~decoded.ok
             /\ now_read > MaxWindowSize(d_chunk_size)
             /\ d_pc' = "error"
             /\ UNCHANGED <<d_previous_chunk, d_buffer, d_yielded>>
    /\ UNCHANGED <<d_stream, d_chunk_size, r_stream, r_chunk_size, r_pos,
                   r_buffer, r_yielded, r_pc, r_bytes_read,
                   pvars, uvars, ovars, qvars>>

\* `chunk = read_and_decode(reader, 2**27, (2**29) * 2)` in the loop
LoopCall ==
    /\ d_pc = "loop"
    /\ Call(<<>>, 0)

\* `return read_and_decode(reader, chunk_size, max_window_size, chunk,
\* bytes_read)` in read_and_decode
RecursiveCall ==
    /\ d_pc = "retry"
    /\ Call(d_previous_chunk, d_bytes_read)

InitCalls ==
    /\ DInit
    /\ r_stream = <<>> /\ r_chunk_size = 1 /\ r_pos = 0 /\ r_buffer = <<>>
    /\ r_yielded = <<>> /\ r_pc = "idle" /\ r_bytes_read = 0
    /\ PIdle /\ UIdle /\ OIdle /\ QIdle
NextCalls == LoopCall \/ RecursiveCall
\* process_file's `for` loop asks for the next line until the generator
\* stops or raises, and a call that was made runs
SpecCalls == InitCalls /\ [][NextCalls]_vars /\ WF_vars(NextCalls)

\* extract_triplets alone
InitParser == TInit /\ PIdle /\ UIdle /\ RIdle /\ WIdle /\ GIdle /\ NIdle /\ QIdle
NextParser == ExtractCall
SpecParser == InitParser /\ [][NextParser]_vars

\* one knowledge-base query and the choice among its candidates
InitResolver == WInit /\ PIdle /\ UIdle /\ RIdle /\ TIdle /\ GIdle /\ NIdle /\ QIdle
NextResolver == SearchCall \/ FilterCall
SpecResolver == InitResolver /\ [][NextResolver]_vars

\* build_graph_data.py: __main__
InitGraph == GInit /\ PIdle /\ UIdle /\ RIdle /\ TIdle /\ WIdle /\ NIdle /\ QIdle
NextGraph == Aggregate \/ NormalizeLarge \/ NormalizeSmall
SpecGraph == InitGraph /\ [][NextGraph]_vars

\* normalize_edges alone
InitNormalize == NInit /\ PIdle /\ UIdle /\ RIdle /\ TIdle /\ WIdle /\ GIdle /\ QIdle
NextNormalize == NormalizeCall
SpecNormalize == InitNormalize /\ [][NextNormalize]_vars

\* normalize_edges on raw lists given in key order: pruning compares weights
\* only, so the thresholds can be compared with one another on fewer lists
KeyRank(e) == Rank(e.head) * (Cardinality(Labels) + 1) + Rank(e.tail)
InitPruning ==
    /\ InitNormalize
    /\ \A i \in 1..(Len(n_raw) - 1) : KeyRank(n_raw[i]) < KeyRank(n_raw[i + 1])
SpecPruning == InitPruning /\ [][NormalizeCall]_vars

\* extract_triplets token by token
InitTokens == XInit /\ PIdle /\ UIdle /\ RIdle /\ OIdle /\ KIdle /\ EIdle
NextTokens == ReadToken \/ ReturnTriplets
SpecTokens == InitTokens /\ [][NextTokens]_vars

InitLink == KInit /\ PIdle /\ UIdle /\ RIdle /\ OIdle /\ XIdle /\ EIdle
NextLink == LinkLine
SpecLink == InitLink /\ [][NextLink]_vars

\* the four stages that work through a file line by line, one at a time
InitStages ==
    /\ \/ PInit /\ EIdle
       \/ PIdle /\ EInit
    /\ UIdle /\ RIdle /\ OIdle /\ XIdle /\ KIdle
NextStages ==
    \/ StartRun
    \/ NextSource
    \/ ProcessLine
    \/ FlushWrite
    \/ FlushCheckpoint
    \/ FinalWrite
    \/ FinalCheckpoint
    \/ SetDone
    \/ Interrupt
    \/ OpenFiles
    \/ ReadLine
    \/ Terminate
SpecStages == InitStages /\ [][NextStages]_vars

InitPlain == EInit /\ PIdle /\ UIdle /\ RIdle /\ OIdle /\ XIdle /\ KIdle
NextPlain == OpenFiles \/ ReadLine \/ Terminate
SpecPlain == InitPlain /\ [][NextPlain]_vars

\* update_progress_config alone
InitUpdate == UInit /\ PIdle /\ RIdle /\ OIdle /\ QIdle
NextUpdate == UpdateCall
SpecUpdate == InitUpdate /\ [][NextUpdate]_vars

(***************************************************************************)
(* Claims about the checkpointed stages.                                   *)
(***************************************************************************)

\* C1 (as stated): unless a process was stopped between an output flush and
\* its checkpoint write, no run applies the transform to a line whose
\* records were already committed (flushed, and the flush followed by its
\* checkpoint write) by an earlier run.
C1_NoCommittedLineTransformedAgain ==
    ~window_crash => \A s \in Sources : reprocessed[s] = {}

\* C2: a run never applies the transform to a line whose 1-based number is
\* strictly below the line cursor that was persisted when the run started.
C2_NoTransformBelowCursor ==
    \A s \in Sources : \A n \in run_transformed[s] : n >= LineOf(config, s)

\* C2 witness: a re-run that found a cursor of 2 or more (so line 1 lies
\* strictly below it) has transformed a line of that source.
C2_Witness ==
    /\ runs >= 2
    /\ \E s \in Sources :
          /\ LineOf(config, s) >= 2
          /\ ~StatusOf(config, s)
          /\ run_transformed[s] # {}

\* C3: a run does nothing to a source that was done when the run started:
\* it opens, reads, transforms, queries, writes and checkpoints nothing, and
\* the source's entry of the progress document is as the run found it.
C3_DoneSourceUntouched ==
    \A s \in Sources :
        (runs > 0 /\ StatusOf(config, s) = TRUE) =>
            /\ touched[s] = {}
            /\ Entry(progress, s) = Entry(config, s)

\* C3 witness: the loop over the sources has passed a source that was done
\* when the run started, and the run is still going.
C3_Witness ==
    /\ pc # "stopped"
    /\ \E i \in 1..Len(SourceOrder) :
          /\ StatusOf(config, SourceOrder[i]) = TRUE
          /\ src_idx > i

\* C4: no step lowers the persisted line cursor of any source.
C4_CursorNeverDecreases ==
    [][\A s \in Sources : LineOf(progress', s) >= LineOf(progress, s)]_vars

\* C4 witness: a re-run that found a cursor above 0 has persisted a
\* higher one.
C4_Witness ==
    /\ runs >= 2
    /\ \E s \in Sources :
          /\ "checkpoint" \in touched[s]
          /\ LineOf(config, s) > 0
          /\ LineOf(progress, s) > LineOf(config, s)

\* C5: whenever a source is done, every one of its lines has been passed to
\* the transform by some run; and done is set only by the step that follows
\* the processing of the source's last line and the final flush (all lines
\* read, nothing left in the buffer).
C5_DoneImpliesAllTransformed ==
    /\ [](\A s \in Sources :
            StatusOf(progress, s) = TRUE =>
                1..Len(lines[s]) \subseteq transformed_ever[s])
    /\ [][\A s \in Sources :
            (StatusOf(progress, s) = FALSE /\ StatusOf(progress', s) = TRUE) =>
                /\ pc = "set_done"
                /\ SourceOrder[src_idx] = s
                /\ pos = Len(lines[s])
                /\ buffer = <<>>]_vars

\* C5 witness: a source of at least three lines is done after a re-run.
C5_Witness ==
    /\ runs >= 2
    /\ \E s \in Sources :
          /\ StatusOf(progress, s) = TRUE
          /\ StatusOf(config, s) = FALSE
          /\ Len(lines[s]) >= 3

\* C6 (as stated): a malformed line never stops the run.
C6_MalformedLineNeverAborts == exit_cause # "malformed"

\* C7: a 403 answer while line n is transformed ends the process in that
\* very step: it leaves the progress document (cursor and done flag) and
\* the output files as they were, so the records buffered since the last
\* flush are not written; and the process being over, it handles no later
\* line and no later source.
C7_FatalAbortsRun ==
    /\ [][kb_denied' =>
            /\ pc' = "stopped"
            /\ exit_cause' = "forbidden"
            /\ progress' = progress
            /\ StatusOf(progress', SourceOrder[src_idx]) = FALSE
            /\ out' = out]_vars
    /\ [](kb_denied => pc = "stopped")

\* C7 witness: the process was stopped by a 403 after it had persisted a
\* cursor, and a record buffered since that flush was dropped.
C7_Witness ==
    /\ kb_denied
    /\ exit_cause = "forbidden"
    /\ lost # <<>>
    /\ \E s \in Sources :
          /\ "checkpoint" \in touched[s]
          /\ StatusOf(progress, s) = FALSE
          /\ \A i \in 1..Len(lost) : lost[i] > LineOf(progress, s)

(***************************************************************************)
(* Claims about update_progress_config.                                    *)
(***************************************************************************)
\* the key path names a value of the document: every key is a key of the
\* dict reached by the keys before it
RECURSIVE HasPath(_, _)
HasPath(level, key_path) ==
    \/ key_path = <<>>
    \/ /\ level.t = "dict"
       /\ Head(key_path) \in DOMAIN level.v
       /\ HasPath(level.v[Head(key_path)], Tail(key_path))

RECURSIVE ValueAt(_, _)
ValueAt(level, key_path) ==
    IF key_path = <<>> THEN level
    ELSE ValueAt(level.v[Head(key_path)], Tail(key_path))

IsPrefix(p, q) == Len(p) <= Len(q) /\ SubSeq(q, 1, Len(p)) = p

\* C8 (as stated): the call never raises; when the key path exists it sets
\* the value there and every value that lies neither on nor under the key
\* path is kept; when a key of the path is missing the document is unchanged
\* and a diagnostic is emitted.
C8_UpdateTouchesOnlyKeyPath ==
    u_outcome # "none" =>
        /\ u_outcome # "raised"
        /\ HasPath(u_before, u_key_path) =>
              /\ u_outcome = "updated"
              /\ HasPath(u_doc, u_key_path)
              /\ ValueAt(u_doc, u_key_path) = u_value
              /\ \A q \in KeyPaths :
                    (HasPath(u_before, q) /\ ~IsPrefix(q, u_key_path)
                        /\ ~IsPrefix(u_key_path, q)) =>
                       (HasPath(u_doc, q)
                           /\ ValueAt(u_doc, q) = ValueAt(u_before, q))
        /\ ~HasPath(u_before, u_key_path) =>
              /\ u_outcome = "diagnostic"
              /\ u_doc = u_before

(***************************************************************************)
(* Claims about the streaming line reader.                                 *)
(***************************************************************************)
\* every line followed by a newline, concatenated
RECURSIVE JoinLines(_)
JoinLines(ls) ==
    IF ls = <<>> THEN <<>> ELSE Head(ls) \o <<"nl">> \o JoinLines(Tail(ls))

\* the text up to and including its last newline
UpToLastNewline(text) ==
    LET ends == {i \in 1..Len(text) : text[i] = "nl"}
    IN IF ends = {} THEN <<>>
       ELSE SubSeq(text, 1, CHOOSE i \in ends : \A j \in ends : j <= i)

NewlineCount(text) == Cardinality({i \in 1..Len(text) : text[i] = "nl"})

LinesMatchText ==
    /\ JoinLines(r_yielded) = UpToLastNewline(Decode(r_stream).text)
    /\ Len(r_yielded) = NewlineCount(Decode(r_stream).text)
    /\ \A i \in 1..Len(r_yielded) :
          \A k \in 1..Len(r_yielded[i]) : r_yielded[i][k] # "nl"

\* C9 (as stated): on every decodable stream the reader ends normally and
\* the lines it yielded, each followed by a newline, concatenate to the
\* decoded text up to and including its last newline.
C9_LinesAreTheTextEveryStream ==
    r_pc \in {"done", "error"} => (r_pc = "done" /\ LinesMatchText)

\* C9 (amended): whenever the reader ends without a decode error, the lines
\* it yielded, each followed by a newline, concatenate to the decoded text
\* up to and including its last newline: one line per newline, none lost,
\* duplicated or split, and the text after the last newline is not yielded.
C9_LinesAreTheText == r_pc = "done" => LinesMatchText

\* C9 witness: the reader, reading 2 bytes at a time, has ended on a text
\* of two or more lines and an unterminated rest; a yielded line holds a
\* multi-byte character and a chunk ends inside a character (the byte
\* after an even offset is a continuation byte).
C9_Witness ==
    /\ r_pc = "done"
    /\ r_chunk_size = 2
    /\ Len(r_yielded) >= 2
    /\ \E i \in 1..Len(r_yielded) : \E k \in 1..Len(r_yielded[i]) :
          r_yielded[i][k] \in {"e3", "e4"}
    /\ \E i \in 2..Len(r_stream) :
          i % 2 = 1 /\ r_stream[i][2] > 1
    /\ r_buffer # <<>>

\* C10 (as stated): for the stream at hand, the reader yields the same
\* sequence of lines with every chunk size.
C10_SameLinesEveryChunkSize ==
    r_pc = "done" =>
        \A c \in ChunkSizes : ReadLinesZst(r_stream, c).yielded = r_yielded

\* C10 (amended): for the stream at hand, the reader yields the same
\* sequence of lines with every chunk size with which it ends without a
\* decode error.
C10_SameLinesEveryCompletingChunkSize ==
    r_pc = "done" =>
        \A c \in ChunkSizes :
            ReadLinesZst(r_stream, c).pc = "done" =>
                ReadLinesZst(r_stream, c).yielded = r_yielded

\* C10 witness: a stream with a line that holds a multi-byte character
\* which chunk size 1 cuts across three chunks and chunk size 2 across two;
\* the reader has ended normally with both chunk sizes.
C10_Witness ==
    /\ r_pc = "done"
    /\ r_chunk_size = 1
    /\ r_yielded # <<>>
    /\ \E i \in 1..Len(r_stream) :
          /\ r_stream[i] = <<"e3", 2>>
          /\ i % 2 = 0
    /\ ReadLinesZst(r_stream, 2).pc = "done"

\* C11: a decode attempt that fails does so only once its byte counter has
\* passed the retry window, after no more reads than the window allows plus
\* one, and the byte count of the error equals the number of bytes the
\* attempt consumed from the stream.
C11_ErrorReportsBytesConsumed ==
    [][r_pc' = "error" =>
          /\ r_bytes_read' > MaxWindowSize(r_chunk_size)
          /\ r_bytes_read' - r_chunk_size <= MaxWindowSize(r_chunk_size)
          /\ r_bytes_read' = r_pos' - r_pos]_vars

\* "tokens joined by single spaces"
RECURSIVE JoinSpace(_)
JoinSpace(run) ==
    IF Len(run) <= 1 THEN run
    ELSE <<Head(run), " ">> \o JoinSpace(Tail(run))

\* C12, the general part: on "<triplet> h_1 <subj> t_1 <obj> r_1 ... <triplet> h_k <subj> t_k
\* <obj> r_k" extract_triplets returns exactly k triplets, in input order,
\* the i-th with head h_i, relation r_i and tail t_i, each joined by single
\* spaces.
C12_WellFormedTextGivesItsTriplets ==
    (t_pc = "returned" /\ t_runs # <<>>) =>
        /\ Len(t_triplets) = Len(t_runs)
        /\ \A i \in 1..Len(t_runs) :
              /\ t_triplets[i].head = JoinSpace(t_runs[i].h)
              /\ t_triplets[i].type = JoinSpace(t_runs[i].r)
              /\ t_triplets[i].tail = JoinSpace(t_runs[i].t)

\* C12, the example: "<triplet> Earth <subj> Sun <obj> orbits" yields head
\* Earth, relation orbits, tail Sun.
C12_ExampleGivesEarthOrbitsSun ==
    (/\ t_pc = "returned"
     /\ Tokens(t_text) = <<"<triplet>", "Earth", "<subj>", "Sun", "<obj>", "orbits">>)
    => t_triplets = <<[head |-> <<"Earth">>, type |-> <<"orbits">>,
                       tail |-> <<"Sun">>]>>

\* C12, both parts
C12_WellFormedText ==
    C12_WellFormedTextGivesItsTriplets /\ C12_ExampleGivesEarthOrbitsSun

\* C12 witness: a text of two or more triplets, with its special tokens and
\* with a head and a relation of two words, has returned.
C12_Witness ==
    /\ t_pc = "returned"
    /\ Len(t_runs) >= 2
    /\ Len(t_triplets) = Len(t_runs)
    /\ \E i \in 1..Len(t_runs) : Len(t_runs[i].h) = 2
    /\ \E i \in 1..Len(t_runs) : Len(t_runs[i].r) = 2
    /\ t_text = WithSentinels(WellFormedText(t_runs))

\* some similarity of the record, its label's or an alias's, is 100
IsExact(record) ==
    \E k \in 1..Len(record.similarities) : record.similarities[k] = 100

\* C13: if some candidate's best similarity is 100, the label of the first
\* such candidate in received order is returned, whatever the threshold,
\* the similarity of that label and the candidates after it.
C13_FirstExactCandidateWins ==
    (w_pc = "returned" /\ \E i \in 1..Len(w_results) : IsExact(w_results[i])) =>
        \E i \in 1..Len(w_results) :
            /\ IsExact(w_results[i])
            /\ \A j \in 1..(i - 1) : ~IsExact(w_results[j])
            /\ w_return = <<w_results[i].label>>

\* C13 witness: returned with threshold 100 for a list whose first candidate
\* is below 100, whose second has a label at 0 and an alias at 100, and
\* whose third is at 100 too.
C13_Witness ==
    /\ w_pc = "returned"
    /\ w_threshold = 100
    /\ Len(w_results) = 3
    /\ w_results[1].similarities = <<80>>
    /\ w_results[2].similarities = <<0, 100>>
    /\ w_results[3].similarities = <<100>>
    /\ w_return = <<2>>

\* the best similarity of the i-th result, and the greatest over all results
BestOf(i) ==
    CHOOSE x \in 0..100 :
        /\ \E k \in 1..Len(w_results[i].similarities) :
              w_results[i].similarities[k] = x
        /\ \A k \in 1..Len(w_results[i].similarities) :
              w_results[i].similarities[k] <= x

IsHighest(i) == \A j \in 1..Len(w_results) : BestOf(j) <= BestOf(i)

NoExact == \A i \in 1..Len(w_results) : ~IsExact(w_results[i])

\* C14: with no candidate at 100, the label returned is that of a candidate
\* whose best similarity is the greatest of all and reaches the threshold,
\* and none is returned if and only if no candidate's best similarity
\* reaches the threshold.
C14_BestCandidateAtOrAboveThreshold ==
    (w_pc = "returned" /\ NoExact) =>
        /\ w_return = None <=>
              \A i \in 1..Len(w_results) : BestOf(i) < w_threshold
        /\ w_return # None =>
              \E i \in 1..Len(w_results) :
                  /\ w_return = <<w_results[i].label>>
                  /\ IsHighest(i)
                  /\ BestOf(i) >= w_threshold

\* C15: when several candidates share the highest best similarity, which
\* reaches the threshold and is below 100, the label of the first of them in
\* received order is returned.
C15_FirstOfEqualCandidatesWins ==
    (/\ w_pc = "returned"
     /\ NoExact
     /\ \E i, j \in 1..Len(w_results) :
           /\ i # j
           /\ IsHighest(i) /\ IsHighest(j)
           /\ BestOf(i) >= w_threshold) =>
        \E i \in 1..Len(w_results) :
            /\ IsHighest(i)
            /\ \A j \in 1..(i - 1) : ~IsHighest(j)
            /\ w_return = <<w_results[i].label>>

\* C16: a query's outcome is one of three: status 200 hands on the received
\* candidates in order; status 403 ends the run; any other status hands on
\* an empty list, so that no label is returned for the mention, and the run
\* goes on.
C16_ThreeOutcomes ==
    w_pc # "search" =>
        /\ w_status_code = 200 => (w_pc # "exited" /\ w_results = w_received)
        /\ w_status_code = 403 => w_pc = "exited"
        /\ w_status_code \notin {200, 403} =>
              /\ w_pc # "exited"
              /\ w_results = <<>>
              /\ w_pc = "returned" => w_return = None

\* the triples whose endpoints are x and y, in either order
TriplesBetween(x, y) ==
    {i \in 1..Len(g_triples) :
        \/ g_triples[i].linked_head = x /\ g_triples[i].linked_tail = y
        \/ g_triples[i].linked_head = y /\ g_triples[i].linked_tail = x}

\* C17: the aggregation returns exactly one edge per unordered pair of
\* distinct labels that occurs as the endpoints of a triple, in either
\* order; its head comes before its tail in the order of the labels, and its
\* raw weight is the number of triples between the two; triples from a
\* label to itself contribute nothing.
C17_OneEdgePerUnorderedPair ==
    g_pc # "aggregate" =>
        /\ \A i \in 1..Len(g_raw) :
              /\ g_raw[i].head # g_raw[i].tail
              /\ Rank(g_raw[i].head) < Rank(g_raw[i].tail)
              /\ g_raw[i].raw_edge_weight =
                    Cardinality(TriplesBetween(g_raw[i].head, g_raw[i].tail))
              /\ g_raw[i].raw_edge_weight >= 1
        /\ \A i, j \in 1..Len(g_raw) :
              (g_raw[i].head = g_raw[j].head /\ g_raw[i].tail = g_raw[j].tail)
                  => i = j
        /\ \A x, y \in TripleLabels :
              (x # y /\ TriplesBetween(x, y) # {}) =>
                  \E i \in 1..Len(g_raw) :
                      {g_raw[i].head, g_raw[i].tail} = {x, y}

\* C17 witness: the triples (a,b), (b,a), a self-loop and one more pair
\* were aggregated; the edge a-b has raw weight 2.
C17_Witness ==
    /\ g_pc # "aggregate"
    /\ \E i, j, k \in 1..Len(g_triples) :
          /\ g_triples[i] = [linked_head |-> "a", linked_tail |-> "b"]
          /\ g_triples[j] = [linked_head |-> "b", linked_tail |-> "a"]
          /\ g_triples[k].linked_head = g_triples[k].linked_tail
    /\ Len(g_raw) = 2
    /\ \E i \in 1..Len(g_raw) :
          g_raw[i] = [head |-> "a", tail |-> "b", raw_edge_weight |-> 2]

\* the least and the greatest raw weight of the edges handed in
MinRaw ==
    CHOOSE w \in {n_raw[i].raw_edge_weight : i \in 1..Len(n_raw)} :
        \A i \in 1..Len(n_raw) : w <= n_raw[i].raw_edge_weight
MaxRaw ==
    CHOOSE w \in {n_raw[i].raw_edge_weight : i \in 1..Len(n_raw)} :
        \A i \in 1..Len(n_raw) : w >= n_raw[i].raw_edge_weight

\* the fraction x equals n / d
FracIs(x, n, d) == x[1] * d = n * x[2]

\* C18: each edge's normalized weight is (raw_weight - min_w) / (max_w -
\* min_w) when min_w # max_w and 1.0 when min_w = max_w; with min_w = max_w
\* every weight is 1.0 before and after the renormalization; with P = 0 the
\* final weight of each edge equals its normalized weight.
C18_MinMaxNormalization ==
    (n_pc = "returned" /\ n_raw # <<>>) =>
        /\ Len(n_result.normalized) = Len(n_raw)
        /\ \A i \in 1..Len(n_raw) :
              IF MinRaw = MaxRaw
              THEN FracIs(n_result.normalized[i], 1, 1)
              ELSE FracIs(n_result.normalized[i],
                          n_raw[i].raw_edge_weight - MinRaw, MaxRaw - MinRaw)
        /\ MinRaw = MaxRaw =>
              \A k \in 1..Len(n_result.edges) :
                  FracIs(n_result.edges[k].edge_weight, 1, 1)
        /\ n_threshold = 0 =>
              /\ Len(n_result.edges) = Len(n_raw)
              /\ \A i \in 1..Len(n_raw) :
                    n_result.edges[i].edge_weight[1] * n_result.normalized[i][2]
                        = n_result.normalized[i][1] * n_result.edges[i].edge_weight[2]

\* C18 witness: returned with P = 0 for three edges of raw weights 10, 1
\* and 5; the third edge's final weight is 4/9.
C18_Witness ==
    /\ n_pc = "returned"
    /\ n_threshold = 0
    /\ Len(n_raw) = 3
    /\ n_raw[1].raw_edge_weight = 10
    /\ n_raw[2].raw_edge_weight = 1
    /\ n_raw[3].raw_edge_weight = 5
    /\ n_result.edges[3].edge_weight = <<4, 9>>

\* the places of the edges whose normalized weight is below, or at most, v
PlacesBelow(v) ==
    {j \in 1..Len(n_raw) : FracLess(n_result.normalized[j], v)}
PlacesUpTo(v) ==
    {j \in 1..Len(n_raw) : ~FracLess(v, n_result.normalized[j])}

\* v is the value at (0-based) index `index` of the ascending normalized
\* weights
IsCutoff(v, index) ==
    /\ \E j \in 1..Len(n_raw) : n_result.normalized[j] = v
    /\ Cardinality(PlacesBelow(v)) <= index
    /\ index < Cardinality(PlacesUpTo(v))

\* C19: for every P in (0,100] and every non-empty list of N edges,
\* normalize_edges completes and keeps exactly the edges whose normalized
\* weight is above the cutoff, the value at index floor(N*P/100) of the
\* ascending normalized weights.
C19_PrunesAboveCutoffForEveryP ==
    (n_pc # "called" /\ n_threshold > 0 /\ n_threshold <= 100 /\ n_raw # <<>>) =>
        /\ n_pc = "returned"
        /\ \E j \in 1..Len(n_raw) :
              /\ IsCutoff(n_result.normalized[j],
                          (Len(n_raw) * n_threshold) \div 100)
              /\ {n_result.kept[k] : k \in 1..Len(n_result.kept)} =
                    {i \in 1..Len(n_raw) :
                        FracLess(n_result.normalized[j], n_result.normalized[i])}
        /\ Len(n_result.edges) = Len(n_result.kept)

\* C20: with P = 0 nothing is pruned: for every non-empty raw edge list the
\* result holds exactly the (head, tail) pairs of the list.
C20_ZeroThresholdKeepsEveryEdge ==
    (n_pc # "called" /\ n_threshold = 0 /\ n_raw # <<>>) =>
        /\ n_pc = "returned"
        /\ Len(n_result.edges) = Len(n_raw)
        /\ {<<n_result.edges[k].head, n_result.edges[k].tail>> :
               k \in 1..Len(n_result.edges)}
             = {<<n_raw[i].head, n_raw[i].tail>> : i \in 1..Len(n_raw)}

\* C20 witness: returned with P = 0 for three edges of different raw
\* weights; the edge of the least weight is in the result, with weight 0.
C20_Witness ==
    /\ n_pc = "returned"
    /\ n_threshold = 0
    /\ Len(n_raw) = 3
    /\ MinRaw # MaxRaw
    /\ \E i \in 1..3 :
          /\ n_raw[i].raw_edge_weight = MinRaw
          /\ n_result.edges[i].head = n_raw[i].head
          /\ n_result.edges[i].tail = n_raw[i].tail
          /\ n_result.edges[i].edge_weight = <<0, 1>>

\* the normalized weights of the edges that survived the pruning
SurvivorWeights == {n_result.normalized[n_result.kept[k]] : k \in 1..Len(n_result.kept)}
OutputWeights == {n_result.edges[k].edge_weight : k \in 1..Len(n_result.edges)}

\* C21: every weight of the result lies in [0,1]; when the surviving edges
\* have two or more distinct normalized weights the least weight of the
\* result is 0 and the greatest is 1; when they share one value every weight
\* of the result is 1.
C21_OutputSpansUnitInterval ==
    n_pc = "returned" =>
        /\ \A w \in OutputWeights :
              /\ w[2] > 0
              /\ 0 <= w[1]
              /\ w[1] <= w[2]
        /\ Cardinality(SurvivorWeights) >= 2 =>
              /\ \E w \in OutputWeights : w[1] = 0
              /\ \E w \in OutputWeights : w[1] = w[2]
        /\ Cardinality(SurvivorWeights) = 1 =>
              \A w \in OutputWeights : w[1] = w[2]

\* C21 witness: of three edges of different raw weights the pruning at
\* P = 10 dropped the least; the two survivors, at 4/9 and 1 before, are
\* returned with weights 0 and 1.
C21_Witness ==
    /\ n_pc = "returned"
    /\ n_threshold = 10
    /\ Len(n_raw) = 3
    /\ SurvivorWeights = {<<4, 9>>, <<1, 1>>}
    /\ OutputWeights = {<<0, 1>>, <<1, 1>>}

\* the raw weights of the scenario: (a,b) 10, (a,c) 1, (b,c) 5
IsScenario ==
    /\ Len(n_raw) = 3
    /\ \A e \in {[head |-> "a", tail |-> "b", raw_edge_weight |-> 10],
                 [head |-> "a", tail |-> "c", raw_edge_weight |-> 1],
                 [head |-> "b", tail |-> "c", raw_edge_weight |-> 5]} :
          \E i \in 1..3 : n_raw[i] = e

ResultEdges == {n_result.edges[k] : k \in 1..Len(n_result.edges)}

\* C22: for the raw weights (a,b) 10, (a,c) 1 and (b,c) 5, in any order of
\* the list, P = 0 returns the three edges with weights 1, 0 and 4/9, and
\* P = 50 returns the edge (a,b) alone with weight 1.
C22_Scenario ==
    (n_pc # "called" /\ IsScenario) =>
        /\ n_threshold = 0 =>
              /\ n_pc = "returned"
              /\ Len(n_result.edges) = 3
              /\ ResultEdges = {[head |-> "a", tail |-> "b", edge_weight |-> <<1, 1>>],
                                [head |-> "a", tail |-> "c", edge_weight |-> <<0, 1>>],
                                [head |-> "b", tail |-> "c", edge_weight |-> <<4, 9>>]}
        /\ n_threshold = 50 =>
              /\ n_pc = "returned"
              /\ n_result.edges =
                    <<[head |-> "a", tail |-> "b", edge_weight |-> <<1, 1>>]>>

\* C22 witness: the scenario's list was normalized with P = 50 and one edge
\* came back.
C22_Witness ==
    /\ n_pc = "returned"
    /\ IsScenario
    /\ n_threshold = 50
    /\ Len(n_result.edges) = 1

\* C23: a call of normalize_edges leaves the raw aggregation as it was, and
\* each of the two calls of __main__ returns what it returns when it is the
\* only call on the aggregation, whichever of the two comes first.
C23_InputUnchanged ==
    /\ [][g_pc # "aggregate" => g_raw' = g_raw]_vars
    /\ [](g_pc \in {"small", "export"} =>
             g_large = NormalizeEdges(GenerateRawEdgeCounts(g_triples),
                                      LARGE_RENORMALIZATION_THRESHOLD))
    /\ [](g_pc = "export" =>
             g_small = NormalizeEdges(GenerateRawEdgeCounts(g_triples),
                                      SMALL_RENORMALIZATION_THRESHOLD))
    /\ [](g_pc # "aggregate" =>
             LET raw == GenerateRawEdgeCounts(g_triples)
                 after_small == NormalizeEdges(raw, SMALL_RENORMALIZATION_THRESHOLD).input_after
             IN NormalizeEdges(after_small, LARGE_RENORMALIZATION_THRESHOLD)
                    = NormalizeEdges(raw, LARGE_RENORMALIZATION_THRESHOLD))

\* C23 witness: both calls have returned for an aggregation of three edges,
\* the first with an edge in its result.
C23_Witness ==
    /\ g_pc = "export"
    /\ Len(g_raw) = 3
    /\ Len(g_large.edges) >= 1
    /\ \A i \in 1..3 : DOMAIN g_raw[i] = {"head", "tail", "raw_edge_weight"}

\* the records at the end of the output of the source
IsSuffix(records, output) ==
    /\ Len(records) <= Len(output)
    /\ SubSeq(output, Len(output) - Len(records) + 1, Len(output)) = records

\* C24: the loop comes to its flush exactly after a processed line whose
\* number is a multiple of the flush interval; the flush appends all the
\* buffered records to the output, then persists that line number as the
\* line cursor, and the buffer is empty after it; the records are in the
\* output before the cursor is written; a turn of the loop outside the
\* flush changes neither the output nor the progress document.
C24_FlushAppendsThenCheckpoints ==
    /\ [][(pc = "loop" /\ pc' # "stopped") =>
             /\ out' = out
             /\ progress' = progress
             /\ pc' = "flush" <=>
                   (pos' = pos + 1 /\ ~(pos' < current_line)
                       /\ pos' % FlushInterval(stage) = 0)]_vars
    /\ [][(pc = "flush" /\ pc' # "stopped") =>
             /\ pc' = "checkpoint"
             /\ out' = [out EXCEPT ![CurSource] = @ \o buffer]
             /\ progress' = progress]_vars
    /\ [](pc = "checkpoint" =>
             /\ line_number % FlushInterval(stage) = 0
             /\ buffer = <<>> \/ IsSuffix(buffer, out[CurSource]))
    /\ [][(pc = "checkpoint" /\ pc' # "stopped") =>
             /\ pc' = "loop"
             /\ LineOf(progress', CurSource) = line_number
             /\ out' = out
             /\ buffer' = <<>>]_vars

\* C24 witness: a flush at line 2 has appended records to the output and
\* persisted 2 as the cursor, and the loop goes on with an empty buffer.
C24_Witness ==
    /\ pc = "loop"
    /\ line_number = 2
    /\ LineOf(progress, CurSource) = 2
    /\ out[CurSource] # <<>>
    /\ buffer = <<>>
    /\ {"write", "checkpoint"} \subseteq touched[CurSource]

\* how many records of line n the output holds
Count(records, n) == Cardinality({i \in 1..Len(records) : records[i] = n})

\* source s was completed by the present run, which found its cursor at or
\* below every record that a stop had cut off from its checkpoint write
ResumedAndCompleted(s) ==
    /\ window_records[s] # <<>>
    /\ StatusOf(progress, s) = TRUE
    /\ StatusOf(config, s) = FALSE
    /\ \A i \in 1..Len(window_records[s]) :
          window_records[s][i] >= LineOf(config, s)

\* C25 (as stated): after a stop between a flush's append and its checkpoint
\* write, the run that resumes and completes has transformed the lines
\* since the previous checkpoint again, and every record the flush had
\* appended is twice in the output.
C25_AppendedRecordsAppearTwice ==
    \A s \in Sources :
        ResumedAndCompleted(s) =>
            \A i \in 1..Len(window_records[s]) :
                /\ window_records[s][i] \in run_transformed[s]
                /\ Count(out[s], window_records[s][i]) >= 2

\* C25 (amended): a run starts from the cursor that was persisted last, and
\* the run that resumes and completes has transformed the lines of the
\* cut-off records again.  In filter_entities the records the flush had
\* appended stay in the output, and a record that the repeated lookup yields
\* again is appended as a further copy (one it does not yield again stays
\* single).  In extract_entities the restart empties the output, which
\* never holds a record twice.
C25_AppendedRecordsStayAndRepeat ==
    /\ [][(pc = "stopped" /\ pc' # "stopped") => config' = progress]_vars
    /\ [](\A s \in Sources :
            ResumedAndCompleted(s) =>
                \A i \in 1..Len(window_records[s]) :
                    window_records[s][i] \in run_transformed[s])
    /\ [](stage = "link" =>
            \A s \in Sources : \A i \in 1..Len(window_records[s]) :
                Count(out[s], window_records[s][i]) >= 1)
    /\ [][(stage = "link" /\ pc \in {"flush", "final"} /\ pc' # "stopped") =>
             \A i \in 1..Len(window_records[CurSource]) :
                 Count(out'[CurSource], window_records[CurSource][i])
                     = Count(out[CurSource], window_records[CurSource][i])
                       + Count(buffer, window_records[CurSource][i])]_vars
    /\ [](stage = "triplet" =>
            \A s \in Sources : \A n \in 1..Len(lines[s]) : Count(out[s], n) <= 1)

\* C25 witness: filter_entities was stopped between a flush's append and its
\* checkpoint write; the next run completed the source and the output holds
\* a second copy of a record of that flush.
C25_Witness ==
    /\ stage = "link"
    /\ \E s \in Sources :
          /\ ResumedAndCompleted(s)
          /\ \E i \in 1..Len(window_records[s]) :
                Count(out[s], window_records[s][i]) = 2

\* the turn of the loop that reads <subj> while the relation holds text
SubjectMarkerRead ==
    /\ x_pc = "loop"
    /\ x_rest # <<>>
    /\ Head(x_rest) = "<subj>"
    /\ x_st.relation # <<>>

\* C26 (as stated): reading <subj> while the relation buffer holds text
\* appends exactly one triplet of the three buffers, makes the tail buffer
\* the current target and leaves no buffer holding text.
C26_SubjectMarkerLeavesNothingPending ==
    [][SubjectMarkerRead =>
          /\ x_st'.triplets =
                Append(x_st.triplets,
                       [head |-> Strip(x_st.subject),
                        type |-> Strip(x_st.relation),
                        tail |-> Strip(x_st.object_)])
          /\ x_st'.current = "s"
          /\ x_st'.subject = <<>>
          /\ x_st'.object_ = <<>>
          /\ x_st'.relation = <<>>]_vars

\* the three buffers at the end of the loop hold text
AllPending ==
    /\ x_st.subject # <<>>
    /\ x_st.relation # <<>>
    /\ x_st.object_ # <<>>

\* C27: at the end of the tokens the function returns the triplets of the
\* loop with one more, made of the three buffers, when all three buffers
\* hold text, and the triplets of the loop alone otherwise.
C27_FinalTripletIffAllPending ==
    x_pc = "returned" =>
        /\ AllPending =>
              x_return = Append(x_st.triplets,
                                [head |-> Strip(x_st.subject),
                                 type |-> Strip(x_st.relation),
                                 tail |-> Strip(x_st.object_)])
        /\ ~AllPending => x_return = x_st.triplets

\* C27, the other case: the function has returned a text's triplets without
\* a last one, the relation buffer holding text and the head buffer none.
C27_WitnessDiscarded ==
    /\ x_pc = "returned"
    /\ x_st.relation # <<>>
    /\ x_st.subject = <<>>
    /\ x_st.triplets # <<>>
    /\ x_return = x_st.triplets

\* C27 witness: the loop ended with text in the three buffers and the
\* function returned a last triplet with a head other than its tail.
C27_Witness ==
    /\ x_pc = "returned"
    /\ AllPending
    /\ Len(x_return) = Len(x_st.triplets) + 1
    /\ x_return[Len(x_return)].head # x_return[Len(x_return)].tail

\* C28: the line's record is appended to the list of records to write if
\* and only if the resolver returned a label, not None, for the head and
\* for the tail; the record holds the two labels returned and the line's
\* head, type and tail as they were; a line with an unresolved endpoint
\* adds no record.
C28_RecordIffBothResolved ==
    k_pc \in {"linked", "skipped"} =>
        /\ k_pc = "linked" <=> (k_linked_head # None /\ k_linked_tail # None)
        /\ k_pc = "linked" =>
              /\ Len(k_triplets) = 1
              /\ k_triplets[1].linked_head = k_linked_head
              /\ k_triplets[1].linked_tail = k_linked_tail
              /\ k_triplets[1].original_head = k_record.head
              /\ k_triplets[1].type = k_record.type
              /\ k_triplets[1].original_tail = k_record.tail
        /\ k_pc = "skipped" => k_triplets = <<>>

\* C28 witness: a line whose head and tail differ was given a record, its
\* head resolved to the second record of the response.
C28_Witness ==
    /\ k_pc = "linked"
    /\ k_record.head # k_record.tail
    /\ k_linked_head = <<2>>
    /\ k_triplets # <<>>

\* C28, the other case: the head was resolved, the tail was not, and no
\* record was added.
C28_WitnessSkipped ==
    /\ k_pc = "skipped"
    /\ k_linked_head # None
    /\ k_linked_tail = None
    /\ k_tail_status = 200
    /\ k_triplets = <<>>

\* the cursor a run of filter_entities or extract_entities has persisted by
\* the time its loop has read `pos` lines
CursorDue ==
    LET last_flush == (pos \div FlushInterval(stage)) * FlushInterval(stage)
    IN IF last_flush > 0 /\ last_flush >= current_line THEN last_flush
       ELSE current_line

C29_WitnessResumed ==
    /\ runs >= 2
    /\ pc = "loop"
    /\ LineOf(config, CurSource) >= 2
    /\ run_transformed[CurSource] # {}
    /\ 1 \notin run_transformed[CurSource]
    /\ LineOf(progress, CurSource) > LineOf(config, CurSource)

\* C30 (as stated): in every state the output of a source holds the records
\* that were written and checkpointed for the lines below the persisted
\* cursor, and no step removes a record from an output: the output before
\* a step is the beginning of the output after it.
C30_NoCommittedOutputLost ==
    /\ [](\A s \in Sources : \A n \in checkpointed[s] :
            n < LineOf(progress, s) => Count(out[s], n) >= 1)
    /\ [][\A s \in Sources : IsPrefix(out[s], out'[s])]_vars

\* source s was completed by the first run, which found its cursor at 0
CompletedByFirstRun(s) == runs = 1 /\ StatusOf(progress, s) = TRUE

\* the records of the output are in the order of their lines, none twice
InLineOrder(records) ==
    \A i \in 1..Len(records) : \A j \in 1..Len(records) :
        i < j => records[i] < records[j]

\* the first run's steps transform a line that the run had not transformed
TransformsOnce ==
    [][(pc = "loop" /\ pc' # "stopped"
           /\ run_transformed'[CurSource] # run_transformed[CurSource]) =>
          /\ pos' = pos + 1
          /\ pos' \notin run_transformed[CurSource]
          /\ run_transformed'[CurSource] = run_transformed[CurSource] \cup {pos'}]_vars

LastFlushLine(s) ==
    (Len(lines[s]) \div FlushInterval(stage)) * FlushInterval(stage)

FieldPieces(field) == {field[i] : i \in 1..Len(field)}

\* C32 (as stated): every triplet returned, for every sequence of markers
\* and words, has a head, a type and a tail that are not empty, and no
\* field holds a marker.
C32_ReturnedTripletsAreComplete ==
    x_pc = "returned" =>
        \A i \in 1..Len(x_return) :
            /\ x_return[i].head # <<>>
            /\ x_return[i].type # <<>>
            /\ x_return[i].tail # <<>>
            /\ FieldPieces(x_return[i].head) \cap Markers = {}
            /\ FieldPieces(x_return[i].type) \cap Markers = {}
            /\ FieldPieces(x_return[i].tail) \cap Markers = {}

\* the (head, tail) pairs of a result of normalize_edges
RetainedPairs(result) ==
    {<<result.edges[k].head, result.edges[k].tail>> : k \in 1..Len(result.edges)}

\* C33: for every raw list and thresholds P1 <= P2 below 100, the pairs
\* kept at P2 are among the pairs kept at P1; and for P > 0 the edges kept
\* are at most N - floor(N * P / 100) - 1.
C33_PruningIsMonotone ==
    (n_pc = "returned" /\ n_threshold < 100) =>
        /\ \A P1 \in RenormalizationThresholds :
              (P1 < n_threshold /\ n_result.edges # <<>>) =>
                  RetainedPairs(n_result)
                      \subseteq RetainedPairs(NormalizeEdges(n_raw, P1))
        /\ n_threshold > 0 =>
              Len(n_result.edges)
                  <= Len(n_raw) - ((Len(n_raw) * n_threshold) \div 100) - 1

\* C33 witness: of three edges one is kept at P = 50, two are kept at
\* P = 10 and three at P = 0.
C33_Witness ==
    /\ n_pc = "returned"
    /\ n_threshold = 50
    /\ Len(n_raw) = 3
    /\ Cardinality(RetainedPairs(n_result)) = 1
    /\ Cardinality(RetainedPairs(NormalizeEdges(n_raw, 10))) = 2
    /\ Cardinality(RetainedPairs(NormalizeEdges(n_raw, 0))) = 3

\* C34 (as stated): in extract_data, after any number of lines, the records
\* written and the lines counted as bad add up to the lines processed, and
\* a line counted as bad has no record in the output.
C34_WrittenOrBadNeverBoth ==
    (e_stage = "extract" /\ e_pc \in {"loop", "done"}) =>
        /\ Len(e_out) + Cardinality(e_bad) = e_pos
        /\ \A n \in e_bad : Count(e_out, n) = 0

\* reader.read calls made so far by the decode attempt in progress or just
\* ended: every call adds chunk_size to bytes_read, which starts at 0
ReadsOfAttempt == d_bytes_read \div d_chunk_size

ReaderEnded == d_pc \in {"done", "error"}

\* C35: read_lines_zst ends on every finite stream, by a read that returns
\* no data or by the decode error; a stream that ends inside a multi-byte
\* character ends with the decode error, never silently; and one decode
\* attempt makes at most max_window/chunk_size + 1 reads.
C35_ReaderTerminates ==
    /\ <>ReaderEnded
    /\ [](/\ ~Decode(d_stream).ok => d_pc # "done"
          /\ ReadsOfAttempt <= WindowChunks + 1)

\* a stream that holds a whole line and ends inside a multi-byte character:
\* the line was yielded, then the attempt made all its reads and raised
C35_Witness ==
    /\ d_pc = "error"
    /\ d_stream # <<>>
    /\ d_stream[Len(d_stream)][1] \in {"e3", "e4"}
    /\ ~Decode(d_stream).ok
    /\ Len(d_yielded) >= 1
    /\ ReadsOfAttempt = WindowChunks + 1

\* C36 (as stated): when generate_raw_edge_counts yields no edges (no
\* triples, or self-loops only), both calls of normalize_edges return an
\* empty edge list and nothing is raised.
C36_NoEdgesGivesEmptyGraph ==
    (g_pc \in {"small", "export", "raised"}
        /\ GenerateRawEdgeCounts(g_triples) = <<>>) =>
        /\ g_pc # "raised"
        /\ g_large.raised = "none"
        /\ g_large.edges = <<>>
        /\ g_pc = "export" => (g_small.raised = "none" /\ g_small.edges = <<>>)

====
